---- MODULE Spec2Model ----
(***************************************************************************)
(* Similarity and consolidation engine of the Power BI dashboard           *)
(* consolidation tool (analyzers/similarity.py, with the formula           *)
(* comparison of analyzers/metadata_processor.py).                         *)
(*                                                                         *)
(* Text is a sequence of one-character strings, so that lower(), upper(),  *)
(* substring tests and the regular expressions are computed.  A score is   *)
(* a Python float, an IEEE 754 double, and the arithmetic of the           *)
(* comparators is done in doubles with their rounding.  sum() adds its     *)
(* elements from left to right, as CPython does up to 3.11 (from 3.12 on   *)
(* it also carries a correction term for the partial sums).                *)
(***************************************************************************)
EXTENDS Integers, Sequences, FiniteSets, TLC

----------------------------------------------------------------------------
(* Bounds of the model.                                                    *)

\* most elements (measures + visual elements + tables) of one profile
MaxItems == 2

\* number of dashboards of one grouping run
NumDash == 3

----------------------------------------------------------------------------
(* Binary floating point.  A Python float is an IEEE 754 double: here a    *)
(* non-negative double is <<m, e>> with value m * 2^e, the 53-bit mantissa *)
(* m (2^52 <= m < 2^53) a list of four 15-bit limbs, least significant     *)
(* first; 0.0 is <<<<0, 0, 0, 0>>, 0>>.  Every operation computes the      *)
(* exact result and rounds it to nearest, ties to even.  The scores of     *)
(* the engine are never negative, infinite or subnormal.                   *)

LimbBits == 15

MantissaBits == 53

\* 2^k for k in 0..15
Pow2(k) ==
    <<1, 2, 4, 8, 16, 32, 64, 128, 256, 512, 1024, 2048, 4096, 8192, 16384,
      32768>>[k + 1]

LimbBase == 32768

Max(a, b) == IF a >= b THEN a ELSE b

Min(a, b) == IF a <= b THEN a ELSE b

Abs(x) == IF x < 0 THEN -x ELSE x

\* limb i of the natural number a (a list of limbs), 0 beyond its length
Limb(a, i) == IF i >= 1 /\ i <= Len(a) THEN a[i] ELSE 0

\* a without its leading zero limbs
RECURSIVE Trim(_)
Trim(a) ==
    IF a = <<>> THEN <<>>
    ELSE IF a[Len(a)] = 0 THEN Trim(SubSeq(a, 1, Len(a) - 1))
    ELSE a

\* a + b + carry, limb by limb from position i
RECURSIVE AddFrom(_, _, _, _)
AddFrom(a, b, i, carry) ==
    IF i > Len(a) /\ i > Len(b)
    THEN IF carry = 0 THEN <<>> ELSE <<carry>>
    ELSE <<(Limb(a, i) + Limb(b, i) + carry) % LimbBase>>
             \o AddFrom(a, b, i + 1,
                        (Limb(a, i) + Limb(b, i) + carry) \div LimbBase)

NatAdd(a, b) == AddFrom(a, b, 1, 0)

\* a - b - borrow for a >= b, limb by limb from position i
RECURSIVE SubFrom(_, _, _, _)
SubFrom(a, b, i, borrow) ==
    IF i > Len(a) THEN <<>>
    ELSE IF Limb(a, i) - Limb(b, i) - borrow < 0
    THEN <<Limb(a, i) - Limb(b, i) - borrow + LimbBase>>
             \o SubFrom(a, b, i + 1, 1)
    ELSE <<Limb(a, i) - Limb(b, i) - borrow>> \o SubFrom(a, b, i + 1, 0)

NatSub(a, b) == Trim(SubFrom(a, b, 1, 0))

\* a * x + carry for one limb x, limb by limb from position i
RECURSIVE MulLimbFrom(_, _, _, _)
MulLimbFrom(a, x, i, carry) ==
    IF i > Len(a)
    THEN IF carry = 0 THEN <<>> ELSE <<carry>>
    ELSE <<(a[i] * x + carry) % LimbBase>>
             \o MulLimbFrom(a, x, i + 1, (a[i] * x + carry) \div LimbBase)

\* a * b, one limb of b after the other from position j
RECURSIVE MulFrom(_, _, _)
MulFrom(a, b, j) ==
    IF j > Len(b) THEN <<>>
    ELSE NatAdd(MulLimbFrom(a, b[j], 1, 0), <<0>> \o MulFrom(a, b, j + 1))

NatMul(a, b) == Trim(MulFrom(a, b, 1))

\* a divided by the small number d, from the most significant limb i down:
\* <<quotient, remainder>>
RECURSIVE DivFrom(_, _, _, _, _)
DivFrom(a, d, i, rem, quot) ==
    IF i = 0 THEN <<Trim(quot), rem>>
    ELSE DivFrom(a, d, i - 1, (rem * LimbBase + a[i]) % d,
                 <<(rem * LimbBase + a[i]) \div d>> \o quot)

RECURSIVE SmallBitLength(_)
SmallBitLength(x) == IF x = 0 THEN 0 ELSE 1 + SmallBitLength(x \div 2)

\* number of bits of a, which has no leading zero limb
BitLength(a) ==
    IF a = <<>> THEN 0
    ELSE (Len(a) - 1) * LimbBits + SmallBitLength(a[Len(a)])

\* bit i (from 0) of a
Bit(a, i) == (Limb(a, (i \div LimbBits) + 1) \div Pow2(i % LimbBits)) % 2

\* the bits of a below bit k are all 0
LowBitsZero(a, k) ==
    /\ \A j \in 1..(k \div LimbBits) : Limb(a, j) = 0
    /\ Limb(a, (k \div LimbBits) + 1) % Pow2(k % LimbBits) = 0

\* floor(a / 2^(15 q + r))
ShiftRightBy(a, q, r) ==
    Trim([j \in 1..Max(Len(a) - q, 0) |->
             (Limb(a, j + q) \div Pow2(r))
                 + (Limb(a, j + q + 1) % Pow2(r)) * Pow2(LimbBits - r)]
         \o <<>>)

\* floor(a / 2^k)
ShiftRight(a, k) == ShiftRightBy(a, k \div LimbBits, k % LimbBits)

\* a * 2^(15 q + r)
ShiftLeftBy(a, q, r) ==
    Trim([j \in 1..(Len(a) + q + 1) |->
             (Limb(a, j - q) % Pow2(LimbBits - r)) * Pow2(r)
                 + (Limb(a, j - q - 1) \div Pow2(LimbBits - r))]
         \o <<>>)

\* a * 2^k
ShiftLeft(a, k) == ShiftLeftBy(a, k \div LimbBits, k % LimbBits)

NatLess(a, b) ==
    \/ Len(a) < Len(b)
    \/ /\ Len(a) = Len(b)
       /\ \E i \in 1..Len(a) :
              /\ a[i] < b[i]
              /\ \A j \in (i + 1)..Len(a) : a[j] = b[j]

\* the mantissa m as a list of exactly four limbs
Mantissa(m) == [j \in 1..4 |-> Limb(m, j)] \o <<>>

Zero == <<<<0, 0, 0, 0>>, 0>>

IsZero(x) == x[1] = <<0, 0, 0, 0>>

\* the double m * 2^e for a mantissa m of 53 or, after the carry of a
\* rounding up, 54 bits
Normalized(m, e) ==
    IF BitLength(m) > MantissaBits
    THEN <<Mantissa(ShiftRight(m, 1)), e + 1>>
    ELSE <<Mantissa(m), e>>

\* the double nearest to n * 2^e, ties to even, for n of len bits: with more
\* than 53 bits the lowest are cut off and decide the rounding; sticky tells
\* that the exact value lies above n * 2^e, by less than 2^e
RoundBits(n, e, sticky, len) ==
    IF len = 0 THEN Zero
    ELSE IF len <= MantissaBits
    THEN <<Mantissa(ShiftLeft(n, MantissaBits - len)), e - (MantissaBits - len)>>
    ELSE Normalized(
             IF /\ Bit(n, len - MantissaBits - 1) = 1
                /\ \/ sticky
                   \/ ~LowBitsZero(n, len - MantissaBits - 1)
                   \/ Bit(n, len - MantissaBits) = 1
             THEN NatAdd(ShiftRight(n, len - MantissaBits), <<1>>)
             ELSE ShiftRight(n, len - MantissaBits),
             e + (len - MantissaBits))

RoundNat(n, e, sticky) == RoundBits(n, e, sticky, BitLength(n))

\* float(a) for an integer 0 <= a < 2^30
FromInt(a) ==
    RoundNat(Trim(<<a % LimbBase, a \div LimbBase>>), 0, FALSE)

One == <<<<0, 0, 0, 128>>, -52>>

\* x * y
FMul(x, y) ==
    IF IsZero(x) \/ IsZero(y) THEN Zero
    ELSE RoundNat(NatMul(x[1], y[1]), x[2] + y[2], FALSE)

\* x + y
FAdd(x, y) ==
    IF IsZero(x) THEN y
    ELSE IF IsZero(y) THEN x
    ELSE RoundNat(NatAdd(ShiftLeft(x[1], x[2] - Min(x[2], y[2])),
                         ShiftLeft(y[1], y[2] - Min(x[2], y[2]))),
                  Min(x[2], y[2]), FALSE)

\* x < y
FLt(x, y) ==
    IF IsZero(y) THEN FALSE
    ELSE IF IsZero(x) THEN TRUE
    ELSE x[2] < y[2] \/ (x[2] = y[2] /\ NatLess(x[1], y[1]))

\* x <= y
FLe(x, y) == x = y \/ FLt(x, y)

\* x - y for x >= y
FSub(x, y) ==
    IF IsZero(y) THEN x
    ELSE RoundNat(NatSub(ShiftLeft(x[1], x[2] - Min(x[2], y[2])),
                         ShiftLeft(y[1], y[2] - Min(x[2], y[2]))),
                  Min(x[2], y[2]), FALSE)

\* the double nearest to (qr[1] + fraction) * 2^e, for the quotient qr[1] and
\* the remainder qr[2] of a division
RoundQuotient(qr, e) == RoundNat(qr[1], e, qr[2] # 0)

\* x / d for an integer 0 < d < 2^15: the mantissa, with 60 zero bits (four
\* limbs) below it, is divided exactly
FDivInt(x, d) ==
    IF IsZero(x) THEN Zero
    ELSE RoundQuotient(DivFrom(<<0, 0, 0, 0>> \o x[1], d, 8, 0, <<>>),
                       x[2] - 4 * LimbBits)

\* a / b for integers a >= 0 and b > 0
IntDiv(a, b) == FDivInt(FromInt(a), b)

\* sum(xs): the elements added from left to right
RECURSIVE FSumFrom(_, _, _)
FSumFrom(s, i, acc) ==
    IF i > Len(s) THEN acc ELSE FSumFrom(s, i + 1, FAdd(acc, s[i]))

FSum(s) == FSumFrom(s, 1, Zero)

\* sum(xs) / len(xs) for a non-empty list
FMean(s) == FDivInt(FSum(s), Len(s))

\* sum(xs) / len(xs) if xs else 0.0
MeanOrZero(s) == IF s # <<>> THEN FMean(s) ELSE Zero

\* 1.0 - abs(a - b) / max(a, b) for positive counts
NormalizedDifference(a, b) == FSub(One, IntDiv(Abs(a - b), Max(a, b)))

\* the literals of the source: a decimal literal is the double nearest to it
Point1 == IntDiv(1, 10)

Point2 == IntDiv(2, 10)

Point3 == IntDiv(3, 10)

Point4 == IntDiv(4, 10)

Point5 == IntDiv(5, 10)

Point6 == IntDiv(6, 10)

Point7 == IntDiv(7, 10)

Point85 == IntDiv(85, 100)

----------------------------------------------------------------------------
(* Text.                                                                   *)

LowerLetters ==
    <<"a","b","c","d","e","f","g","h","i","j","k","l","m",
      "n","o","p","q","r","s","t","u","v","w","x","y","z">>

UpperLetters ==
    <<"A","B","C","D","E","F","G","H","I","J","K","L","M",
      "N","O","P","Q","R","S","T","U","V","W","X","Y","Z">>

UpperChar(c) ==
    IF \E i \in 1..26 : LowerLetters[i] = c
    THEN UpperLetters[CHOOSE i \in 1..26 : LowerLetters[i] = c]
    ELSE c

LowerChar(c) ==
    IF \E i \in 1..26 : UpperLetters[i] = c
    THEN LowerLetters[CHOOSE i \in 1..26 : UpperLetters[i] = c]
    ELSE c

\* str.upper()
RECURSIVE Upper(_)
Upper(s) ==
    IF s = <<>> THEN <<>> ELSE <<UpperChar(Head(s))>> \o Upper(Tail(s))

\* faulty variant of Lower: the text as it is
Verbatim(s) == s

\* str.lower()
RECURSIVE Lower(_)
Lower(s) ==
    IF s = <<>> THEN <<>> ELSE <<LowerChar(Head(s))>> \o Lower(Tail(s))

Whitespace == {" "}

\* faulty variant of StripWhitespace: the whitespace stays
KeepWhitespace(s) == s

\* re.sub(r'\s+', '', s)
RECURSIVE StripWhitespace(_)
StripWhitespace(s) ==
    IF s = <<>> THEN <<>>
    ELSE IF Head(s) \in Whitespace THEN StripWhitespace(Tail(s))
    ELSE <<Head(s)>> \o StripWhitespace(Tail(s))

\* sub occurs in s at position i
MatchesAt(s, sub, i) ==
    /\ i + Len(sub) - 1 <= Len(s)
    /\ \A k \in 1..Len(sub) : s[i + k - 1] = sub[k]

\* sub in s
Contains(s, sub) == \E i \in 1..(Len(s) + 1) : MatchesAt(s, sub, i)

\* len(re.findall('a1|a2|...', s)): leftmost non-overlapping matches, the
\* alternatives tried in the order written
RECURSIVE FindAllCount(_, _, _)
FindAllCount(s, alts, i) ==
    IF i > Len(s) THEN 0
    ELSE IF \E a \in 1..Len(alts) : MatchesAt(s, alts[a], i)
         THEN LET a == CHOOSE x \in 1..Len(alts) :
                           /\ MatchesAt(s, alts[x], i)
                           /\ \A y \in 1..(x - 1) : ~MatchesAt(s, alts[y], i)
              IN  1 + FindAllCount(s, alts, i + Len(alts[a]))
         ELSE FindAllCount(s, alts, i + 1)

Parens == {"(", ")"}

\* index of the first parenthesis of s after position i, 0 when there is none
NextParen(s, i) ==
    IF \E j \in (i + 1)..Len(s) : s[j] \in Parens
    THEN CHOOSE j \in (i + 1)..Len(s) :
             /\ s[j] \in Parens
             /\ \A k \in (i + 1)..(j - 1) : s[k] \notin Parens
    ELSE 0

\* end of the match of \([^()]*\([^()]*\) starting at position i, 0 when
\* the expression does not match there
NestedMatchEnd(s, i) ==
    IF s[i] # "(" THEN 0
    ELSE LET j == NextParen(s, i)
         IN  IF j = 0 \/ s[j] # "(" THEN 0
             ELSE LET k == NextParen(s, j)
                  IN  IF k = 0 \/ s[k] # ")" THEN 0 ELSE k

\* len(re.findall(r'\([^()]*\([^()]*\)', s))
RECURSIVE NestedCount(_, _)
NestedCount(s, i) ==
    IF i > Len(s) THEN 0
    ELSE IF NestedMatchEnd(s, i) # 0
         THEN 1 + NestedCount(s, NestedMatchEnd(s, i) + 1)
         ELSE NestedCount(s, i + 1)

----------------------------------------------------------------------------
(* MetadataProcessor: analysis and comparison of DAX formulas.             *)

dax_functions ==
    {
     <<"S","U","M">>, <<"S","U","M","X">>, <<"A","V","E","R","A","G","E">>,
     <<"A","V","E","R","A","G","E","X">>, <<"C","O","U","N","T">>, <<"C","O","U","N","T","X">>,
     <<"C","O","U","N","T","A">>, <<"C","O","U","N","T","A","X">>, <<"C","O","U","N","T","R","O","W","S">>,
     <<"D","I","S","T","I","N","C","T","C","O","U","N","T">>, <<"M","I","N">>, <<"M","A","X">>,
     <<"C","A","L","C","U","L","A","T","E">>, <<"F","I","L","T","E","R">>, <<"A","L","L">>,
     <<"A","L","L","E","X","C","E","P","T">>, <<"V","A","L","U","E","S">>, <<"D","I","S","T","I","N","C","T">>,
     <<"R","E","L","A","T","E","D">>, <<"R","E","L","A","T","E","D","T","A","B","L","E">>, <<"D","A","T","E","A","D","D">>,
     <<"D","A","T","E","S","Y","T","D">>, <<"T","O","T","A","L","Y","T","D">>, <<"S","A","M","E","P","E","R","I","O","D","L","A","S","T","Y","E","A","R">>,
     <<"P","A","R","A","L","L","E","L","P","E","R","I","O","D">>, <<"F","O","R","M","A","T">>, <<"C","O","N","C","A","T","E","N","A","T","E">>,
     <<"L","E","F","T">>, <<"R","I","G","H","T">>, <<"M","I","D">>,
     <<"F","I","N","D">>, <<"S","U","B","S","T","I","T","U","T","E">>, <<"I","F">>,
     <<"S","W","I","T","C","H">>, <<"A","N","D">>, <<"O","R">>,
     <<"N","O","T">>, <<"B","L","A","N","K">>, <<"I","S","B","L","A","N","K">>,
     <<"I","S","E","R","R","O","R">>, <<"D","I","V","I","D","E">>, <<"R","O","U","N","D","U","P">>,
     <<"R","O","U","N","D","D","O","W","N">>, <<"R","O","U","N","D">>, <<"I","N","T">>,
     <<"M","O","D">>, <<"A","B","S">>, <<"R","A","N","K","X">>,
     <<"T","O","P","N">>, <<"E","A","R","L","I","E","R">>, <<"E","A","R","L","I","E","S","T">>,
     <<"H","A","S","O","N","E","V","A","L","U","E">>, <<"S","E","L","E","C","T","E","D","V","A","L","U","E">>
    }

FilterContextAlts ==
    << <<"C","A","L","C","U","L","A","T","E">>, <<"F","I","L","T","E","R">>,
       <<"A","L","L">> >>

TimeIntelligenceAlts ==
    << <<"D","A","T","E","A","D","D">>, <<"D","A","T","E","S","Y","T","D">>,
       <<"T","O","T","A","L","Y","T","D">>,
       <<"S","A","M","E","P","E","R","I","O","D","L","A","S","T","Y","E","A","R">> >>

IteratorAlts ==
    << <<"S","U","M","X">>, <<"A","V","E","R","A","G","E","X">>,
       <<"C","O","U","N","T","X">>, <<"R","A","N","K","X">> >>

LogicalAlts ==
    << <<"I","F">>, <<"S","W","I","T","C","H">>, <<"A","N","D">>,
       <<"O","R">>, <<"N","O","T">> >>

\* the analysis of an empty formula has neither used_functions nor
\* complexity_indicators: the caller's .get() defaults ([] and {}) stand here
analyze_dax_formula(formula) ==
    IF formula = <<>>
    THEN [error |-> TRUE, used_functions |-> {}, complexity_indicators |-> <<>>]
    ELSE LET formula_upper == Upper(formula)
         IN  [error |-> FALSE,
              used_functions |->
                  {func \in dax_functions : Contains(formula_upper, func)},
              complexity_indicators |->
                  [nested_functions |-> NestedCount(formula, 1),
                   filter_contexts |->
                       FindAllCount(formula_upper, FilterContextAlts, 1),
                   time_intelligence |->
                       FindAllCount(formula_upper, TimeIntelligenceAlts, 1),
                   iterators |-> FindAllCount(formula_upper, IteratorAlts, 1),
                   logical_functions |->
                       FindAllCount(formula_upper, LogicalAlts, 1)]]

\* faulty variant of Jaccard: the overlap over the size of the first set
JaccardOfFirst(set1, set2) ==
    IF Cardinality(set1) > 0
    THEN IntDiv(Cardinality(set1 \cap set2), Cardinality(set1))
    ELSE Zero

\* |a & b| / |a | b|, 0.0 for an empty union
Jaccard(set1, set2) ==
    IF Cardinality(set1 \cup set2) > 0
    THEN IntDiv(Cardinality(set1 \cap set2), Cardinality(set1 \cup set2))
    ELSE Zero

_calculate_function_similarity(functions1, functions2) ==
    IF functions1 = {} /\ functions2 = {} THEN One
    ELSE IF functions1 = {} \/ functions2 = {} THEN Zero
    ELSE Jaccard(functions1, functions2)

\* the list [f(1), ..., f(n)] of a comprehension, each element computed once
List(f) == f \o <<>>

\* a set as a list.  Python iterates a set in an order that depends on the
\* hashes of its elements; the lists built from all_keys, all_types and the
\* pages are added up or sorted, and for the formulas, visual types and
\* pages of this model the result is the same in every order (the
\* similarities over all_keys are 0.0 or 1.0, at most two visual types occur)
RECURSIVE SetToSeq(_)
SetToSeq(S) ==
    IF S = {} THEN <<>>
    ELSE LET x == CHOOSE x \in S : TRUE IN <<x>> \o SetToSeq(S \ {x})

IndicatorGet(indicators, key) ==
    IF key \in DOMAIN indicators THEN indicators[key] ELSE 0

_calculate_structure_similarity(indicators1, indicators2) ==
    IF DOMAIN indicators1 = {} /\ DOMAIN indicators2 = {} THEN One
    ELSE LET all_keys == SetToSeq(DOMAIN indicators1 \cup DOMAIN indicators2)
             similarities ==
                 List([i \in 1..Len(all_keys) |->
                     LET val1 == IndicatorGet(indicators1, all_keys[i])
                         val2 == IndicatorGet(indicators2, all_keys[i])
                     IN  IF val1 = 0 /\ val2 = 0 THEN One
                         ELSE IF val1 = 0 \/ val2 = 0 THEN Zero
                         ELSE NormalizedDifference(val1, val2)])
         IN  MeanOrZero(similarities)

_calculate_string_similarity(formula1, formula2) ==
    IF formula1 = <<>> /\ formula2 = <<>> THEN One
    ELSE IF formula1 = <<>> \/ formula2 = <<>> THEN Zero
    ELSE LET norm1 == StripWhitespace(Upper(formula1))
             norm2 == StripWhitespace(Upper(formula2))
             max_len == Max(Len(norm1), Len(norm2))
             common_chars ==
                 Cardinality({i \in 1..Min(Len(norm1), Len(norm2)) :
                                  norm1[i] = norm2[i]})
         IN  IF norm1 = norm2 THEN One
             ELSE IF max_len = 0 THEN One
             ELSE IntDiv(common_chars, max_len)

\* the result of compare_measures for the three similarities of two formulas
MeasureComparison(function_similarity, structure_similarity, string_similarity) ==
    [overall_similarity |->
         FAdd(FAdd(FMul(function_similarity, Point4),
                   FMul(structure_similarity, Point3)),
              FMul(string_similarity, Point3)),
     function_similarity |-> function_similarity,
     structure_similarity |-> structure_similarity,
     string_similarity |-> string_similarity]

\* the comparison of two formulas with their analyses
CompareAnalyses(analysis1, analysis2, formula1, formula2) ==
    MeasureComparison(
        _calculate_function_similarity(analysis1.used_functions,
                                       analysis2.used_functions),
        _calculate_structure_similarity(analysis1.complexity_indicators,
                                        analysis2.complexity_indicators),
        _calculate_string_similarity(formula1, formula2))

\* MetadataProcessor.compare_measures
compare_measures(measure1, measure2) ==
    CompareAnalyses(analyze_dax_formula(measure1.dax_formula),
                    analyze_dax_formula(measure2.dax_formula),
                    measure1.dax_formula, measure2.dax_formula)

----------------------------------------------------------------------------
(* SimilarityEngine: the five comparators and compare_dashboards.          *)

\* sorted(xs) for a list of integers
RECURSIVE Insert(_, _)
Insert(x, s) ==
    IF s = <<>> THEN <<x>>
    ELSE IF x <= Head(s) THEN <<x>> \o s
    ELSE <<Head(s)>> \o Insert(x, Tail(s))

RECURSIVE Sorted(_)
Sorted(s) == IF s = <<>> THEN <<>> ELSE Insert(Head(s), Sorted(Tail(s)))

Range(s) == {s[i] : i \in 1..Len(s)}

\* types[vtype]: the number of visuals of the type
TypeCount(visuals, vtype) ==
    Cardinality({i \in 1..Len(visuals) : visuals[i].visual_type = vtype})

\* pages[page]: the number of visuals on the page
PageCount(visuals, page) ==
    Cardinality({i \in 1..Len(visuals) : visuals[i].page_name = page})

_compare_measures(measures1, measures2) ==
    IF measures1 = <<>> /\ measures2 = <<>> THEN One
    ELSE IF measures1 = <<>> \/ measures2 = <<>> THEN Zero
    ELSE LET names1 == {Lower(measures1[i].measure_name) : i \in 1..Len(measures1)}
             names2 == {Lower(measures2[i].measure_name) : i \in 1..Len(measures2)}
             name_similarity == Jaccard(names1, names2)
             n2 == Len(measures2)
             \* the pairs (measure1, measure2) in the order of the two loops
             pairs == List([k \in 1..(Len(measures1) * n2) |->
                          <<measures1[((k - 1) \div n2) + 1],
                            measures2[((k - 1) % n2) + 1]>>])
             SameName(pr) ==
                 Lower(pr[1].measure_name) = Lower(pr[2].measure_name)
             matching == SelectSeq(pairs, SameName)
             formula_similarities ==
                 List([k \in 1..Len(matching) |->
                     compare_measures(matching[k][1],
                                      matching[k][2]).overall_similarity])
             formula_similarity == MeanOrZero(formula_similarities)
         IN  FAdd(FMul(name_similarity, Point6),
                  FMul(formula_similarity, Point4))

\* the set of all data fields of the visuals of a list
\* faulty variant of AllFields: the fields of the first visual only
AllFieldsOfFirst(visuals) ==
    IF visuals = <<>> THEN {} ELSE Range(visuals[1].data_fields)

AllFields(visuals) ==
    UNION {Range(visuals[i].data_fields) : i \in 1..Len(visuals)}

_compare_visuals(visuals1, visuals2) ==
    IF visuals1 = <<>> /\ visuals2 = <<>> THEN One
    ELSE IF visuals1 = <<>> \/ visuals2 = <<>> THEN Zero
    ELSE LET TypeOf(v) == v.visual_type
             all_types == SetToSeq({TypeOf(visuals1[i]) : i \in 1..Len(visuals1)}
                              \cup {TypeOf(visuals2[i]) : i \in 1..Len(visuals2)})
             type_similarities ==
                 List([t \in 1..Len(all_types) |->
                     LET count1 == TypeCount(visuals1, all_types[t])
                         count2 == TypeCount(visuals2, all_types[t])
                     IN  IF count1 = 0 \/ count2 = 0 THEN Zero
                         ELSE NormalizedDifference(count1, count2)])
             visual_type_similarity == MeanOrZero(type_similarities)
             field_similarity == Jaccard(AllFields(visuals1), AllFields(visuals2))
         IN  FAdd(FMul(visual_type_similarity, Point6),
                  FMul(field_similarity, Point4))

_compare_data_model(tables1, tables2) ==
    IF tables1 = <<>> /\ tables2 = <<>> THEN One
    ELSE IF tables1 = <<>> \/ tables2 = <<>> THEN Zero
    ELSE Jaccard({Lower(tables1[i].table_name) : i \in 1..Len(tables1)},
                 {Lower(tables2[i].table_name) : i \in 1..Len(tables2)})

\* sorted(pages.values()): the visuals per page, ascending
PageCounts(visuals) ==
    LET PageOf(v) == v.page_name
        pages == SetToSeq({PageOf(visuals[i]) : i \in 1..Len(visuals)})
    IN  Sorted(List([p \in 1..Len(pages) |-> PageCount(visuals, pages[p])]))

\* faulty variant of ComparePageCounts: without the length penalty
ComparePageCountsNoPenalty(page_counts1, page_counts2, min_length) ==
    IF page_counts1 = <<>> /\ page_counts2 = <<>> THEN One
    ELSE IF page_counts1 = <<>> \/ page_counts2 = <<>> THEN Zero
    ELSE IF min_length = 0 THEN Zero
    ELSE MeanOrZero(List([i \in 1..min_length |->
             IF page_counts1[i] = page_counts2[i] THEN One
             ELSE NormalizedDifference(page_counts1[i], page_counts2[i])]))

\* the layout similarity of two sorted lists of visuals per page (lines 225-248)
ComparePageCounts(page_counts1, page_counts2, min_length) ==
    IF page_counts1 = <<>> /\ page_counts2 = <<>> THEN One
    ELSE IF page_counts1 = <<>> \/ page_counts2 = <<>> THEN Zero
    ELSE IF min_length = 0 THEN Zero
    ELSE LET similarities ==
                 List([i \in 1..min_length |->
                     IF page_counts1[i] = page_counts2[i] THEN One
                     ELSE NormalizedDifference(page_counts1[i], page_counts2[i])])
             length_penalty ==
                 IntDiv(min_length, Max(Len(page_counts1), Len(page_counts2)))
         IN  FMul(MeanOrZero(similarities), length_penalty)

_compare_layout(visuals1, visuals2) ==
    IF visuals1 = <<>> /\ visuals2 = <<>> THEN One
    ELSE IF visuals1 = <<>> \/ visuals2 = <<>> THEN Zero
    ELSE ComparePageCounts(PageCounts(visuals1), PageCounts(visuals2),
                           Min(Len(PageCounts(visuals1)),
                               Len(PageCounts(visuals2))))

\* faulty variant of IsFilter: a visual of any type
IsAnyVisual(v) == TRUE

IsFilter(v) == v.visual_type = "filter"

\* faulty variant of _compare_filters: without the guards for dashboards
\* that have no filters
_compare_filters_unguarded(visuals1, visuals2) ==
    Jaccard(AllFields(SelectSeq(visuals1, IsFilter)),
            AllFields(SelectSeq(visuals2, IsFilter)))

_compare_filters(visuals1, visuals2) ==
    LET filters1 == SelectSeq(visuals1, IsFilter)
        filters2 == SelectSeq(visuals2, IsFilter)
    IN  IF filters1 = <<>> /\ filters2 = <<>> THEN One
        ELSE IF filters1 = <<>> \/ filters2 = <<>> THEN Zero
        ELSE Jaccard(AllFields(filters1), AllFields(filters2))

\* faulty variant of default_weights: weights that add up to 1.1
default_weights_unnormalised ==
    [measures |-> Point4, visuals |-> Point3, data_model |-> Point3,
     layout |-> Point1]

default_weights ==
    [measures |-> Point4, visuals |-> Point3,
     data_model |-> Point2, layout |-> Point1]

\* weights.get(key, default)
WeightGet(w, key, default) == IF key \in DOMAIN w THEN w[key] ELSE default

\* faulty variant of SimilarityScore: the filters score is a term of the
\* total, with the weight of the layout
SimilarityScoreWithFilters(d1, d2, w, breakdown) ==
    [dashboard1_id |-> d1.dashboard_id,
     dashboard2_id |-> d2.dashboard_id,
     total_score |->
         FAdd(FAdd(FAdd(FAdd(
             FMul(breakdown.measures_score, WeightGet(w, "measures", Point4)),
             FMul(breakdown.visuals_score, WeightGet(w, "visuals", Point3))),
             FMul(breakdown.data_model_score, WeightGet(w, "data_model", Point2))),
             FMul(breakdown.layout_score, WeightGet(w, "layout", Point1))),
             FMul(breakdown.filters_score, WeightGet(w, "layout", Point1))),
     breakdown |-> breakdown]

\* the SimilarityScore of lines 78-102 for the breakdown of the sub-scores
SimilarityScore(d1, d2, w, breakdown) ==
    [dashboard1_id |-> d1.dashboard_id,
     dashboard2_id |-> d2.dashboard_id,
     total_score |->
         FAdd(FAdd(FAdd(
             FMul(breakdown.measures_score, WeightGet(w, "measures", Point4)),
             FMul(breakdown.visuals_score, WeightGet(w, "visuals", Point3))),
             FMul(breakdown.data_model_score, WeightGet(w, "data_model", Point2))),
             FMul(breakdown.layout_score, WeightGet(w, "layout", Point1))),
     breakdown |-> breakdown]

compare_dashboards(d1, d2, w) ==
    SimilarityScore(d1, d2, w,
        [measures_score |-> _compare_measures(d1.measures, d2.measures),
         visuals_score |->
             _compare_visuals(d1.visual_elements, d2.visual_elements),
         data_model_score |-> _compare_data_model(d1.tables, d2.tables),
         layout_score |->
             _compare_layout(d1.visual_elements, d2.visual_elements),
         filters_score |->
             _compare_filters(d1.visual_elements, d2.visual_elements)])

----------------------------------------------------------------------------
(* The profiles a comparison is given.                                     *)

SumAFormula == <<"S","U","M","(","A",")">>

IfOrFormula == <<"I","F","(","O","R","(","A",")",")">>

MeasureUniverse ==
    {[measure_name |-> <<"T","s">>, dax_formula |-> SumAFormula],
     [measure_name |-> <<"t","S">>, dax_formula |-> IfOrFormula],
     [measure_name |-> <<"A","v">>, dax_formula |-> <<>>]}

VisualUniverse ==
    {[visual_type |-> "bar", page_name |-> "p1", data_fields |-> <<"f1">>],
     [visual_type |-> "bar", page_name |-> "p2", data_fields |-> <<>>],
     [visual_type |-> "filter", page_name |-> "p1", data_fields |-> <<"f1", "f2">>]}

TableUniverse ==
    {[table_name |-> <<"S","a">>], [table_name |-> <<"S","A">>],
     [table_name |-> <<"D">>]}

BoundedSeq(S, n) == UNION {[1..k -> S] : k \in 0..n}

\* the profiles of at most MaxItems elements with the given id
Profiles(id) ==
    {[dashboard_id |-> id, measures |-> m, visual_elements |-> v, tables |-> t] :
        <<m, v, t>> \in
            {x \in BoundedSeq(MeasureUniverse, MaxItems)
                   \X BoundedSeq(VisualUniverse, MaxItems)
                   \X BoundedSeq(TableUniverse, MaxItems) :
                Len(x[1]) + Len(x[2]) + Len(x[3]) <= MaxItems}}

None == [none |-> TRUE]

----------------------------------------------------------------------------
(* State.                                                                  *)

VARIABLES
    dashboard1,            \* compare_dashboards: the first profile
    dashboard2,            \* compare_dashboards: the second profile
    weights,               \* the weights of the comparison
    scoreAB,               \* compare_dashboards(dashboard1, dashboard2), or None
    scoreBA,               \* compare_dashboards(dashboard2, dashboard1), or None
    profiles,              \* generate_consolidation_groups: the profiles
    similarity_scores,     \* generate_consolidation_groups: the scored pairs
    pc,                    \* position in generate_consolidation_groups
    connections,           \* adjacency: dashboard id -> set of dashboard ids
    visited,               \* ids marked visited
    groups,                \* the id sets found so far, in order
    idx,                   \* index of the profile loop of lines 296-300
    stack,                 \* _find_connected_group: the stack
    group,                 \* _find_connected_group: the group being collected
    consolidation_groups,  \* the returned ConsolidationGroup list
    pending,               \* compare_all_dashboards: the index pairs still to compare
    result,                \* analyze_batch: the returned dict, or None
    measure1,              \* compare_measures: the first measure
    measure2,              \* compare_measures: the second measure
    comparison,            \* compare_measures(measure1, measure2), or None
    dashboard_profiles,    \* main.dashboard_profiles: the values, in insertion order
    stored_similarity_scores,     \* main.similarity_scores
    stored_consolidation_groups,  \* main.consolidation_groups
    response               \* the last request and its HTTP status, or None

compareVars == <<dashboard1, dashboard2, weights, scoreAB, scoreBA>>

groupVars ==
    <<profiles, similarity_scores, pc, connections, visited, groups, idx,
      stack, group, consolidation_groups>>

batchVars == <<pending, result>>

formulaVars == <<measure1, measure2, comparison>>

apiVars ==
    <<dashboard_profiles, stored_similarity_scores, stored_consolidation_groups,
      response>>

vars == <<compareVars, groupVars, batchVars, formulaVars, apiVars>>

\* the grouping run is not started
GroupIdle ==
    /\ profiles = <<>>
    /\ similarity_scores = <<>>
    /\ pc = "idle"
    /\ connections = <<>>
    /\ visited = {}
    /\ groups = <<>>
    /\ idx = 0
    /\ stack = <<>>
    /\ group = {}
    /\ consolidation_groups = <<>>

\* no batch analysis is running
BatchIdle ==
    /\ pending = <<>>
    /\ result = None

\* the stores of the API are empty and no request was made
ApiIdle ==
    /\ dashboard_profiles = <<>>
    /\ stored_similarity_scores = <<>>
    /\ stored_consolidation_groups = <<>>
    /\ response = None

\* no comparison of measures is requested
FormulaIdle ==
    /\ measure1 = None
    /\ measure2 = None
    /\ comparison = None

\* no comparison is requested
CompareIdle ==
    /\ dashboard1 = None
    /\ dashboard2 = None
    /\ weights = default_weights
    /\ scoreAB = None
    /\ scoreBA = None

----------------------------------------------------------------------------
(* Pairwise comparison: compare_dashboards is called on a pair of          *)
(* profiles, then on the same pair in the other order.                     *)

InitCompare ==
    /\ dashboard1 \in Profiles("A")
    /\ dashboard2 \in Profiles("B") \cup {dashboard1}
    /\ weights = default_weights
    /\ scoreAB = None
    /\ scoreBA = None
    /\ GroupIdle
    /\ BatchIdle
    /\ FormulaIdle
    /\ ApiIdle

CompareAB ==
    /\ scoreAB = None
    /\ scoreAB' = compare_dashboards(dashboard1, dashboard2, weights)
    /\ UNCHANGED <<dashboard1, dashboard2, weights, scoreBA, groupVars, batchVars, formulaVars, apiVars>>

CompareBA ==
    /\ scoreAB # None
    /\ scoreBA = None
    /\ scoreBA' = compare_dashboards(dashboard2, dashboard1, weights)
    /\ UNCHANGED <<dashboard1, dashboard2, weights, scoreAB, groupVars, batchVars, formulaVars, apiVars>>

NextCompare == CompareAB \/ CompareBA

Spec == InitCompare /\ [][NextCompare]_vars

----------------------------------------------------------------------------
(* Pairwise comparison with weights supplied by the caller.                *)

\* the weights argument of compare_dashboards: the engine's default, the
\* default of SimilarityAnalysisRequest (no layout), a map with all four
\* keys and a map with one key; the values of each are non-negative and
\* add up to 1.0
WeightMaps ==
    {default_weights,
     [measures |-> Point4, visuals |-> Point3, data_model |-> Point3],
     [measures |-> Point1, visuals |-> Point2, data_model |-> Point3,
      layout |-> Point4],
     [measures |-> One]}

\* the profiles with at most one measure, visual element or table
SmallProfiles(id) ==
    {p \in Profiles(id) :
        Len(p.measures) + Len(p.visual_elements) + Len(p.tables) <= 1}

InitWeights ==
    /\ dashboard1 \in SmallProfiles("A")
    /\ dashboard2 \in SmallProfiles("B") \cup {dashboard1}
    /\ weights \in WeightMaps
    /\ scoreAB = None
    /\ scoreBA = None
    /\ GroupIdle
    /\ BatchIdle
    /\ FormulaIdle
    /\ ApiIdle

SpecWeights == InitWeights /\ [][NextCompare]_vars

----------------------------------------------------------------------------
(* Consolidation groups: generate_consolidation_groups with its traversal  *)
(* _find_connected_group and the recommendation of each group.             *)

consolidation_thresholds ==
    [merge |-> Point85, review |-> Point7, ignore |-> Point5]

\* the group limits of the escalation rule
MeasureLimit == 50

VisualLimit == 100

\* the index pairs of the sweep "for i in range(n): for j in range(i + 1, n)"
RECURSIVE PairsFrom(_, _, _)
PairsFrom(i, j, n) ==
    IF i >= n THEN <<>>
    ELSE IF j > n THEN PairsFrom(i + 1, i + 2, n)
    ELSE <<<<i, j>>>> \o PairsFrom(i, j + 1, n)

\* faulty variant of InsertByTotalDesc: the element goes before the elements
\* of equal total_score
RECURSIVE InsertBeforeEqual(_, _)
InsertBeforeEqual(x, s) ==
    IF s = <<>> THEN <<x>>
    ELSE IF FLe(Head(s).total_score, x.total_score) THEN <<x>> \o s
    ELSE <<Head(s)>> \o InsertBeforeEqual(x, Tail(s))

\* list.sort(key=total_score, reverse=True): descending and stable
RECURSIVE InsertByTotalDesc(_, _)
InsertByTotalDesc(x, s) ==
    IF s = <<>> THEN <<x>>
    ELSE IF FLt(Head(s).total_score, x.total_score) THEN <<x>> \o s
    ELSE <<Head(s)>> \o InsertByTotalDesc(x, Tail(s))

RECURSIVE SortByTotalDesc(_)
SortByTotalDesc(s) ==
    IF s = <<>> THEN <<>>
    ELSE InsertByTotalDesc(s[Len(s)], SortByTotalDesc(SubSeq(s, 1, Len(s) - 1)))

\* faulty variant of Connections: every scored pair is an edge
ConnectionsAnyScore(scores) ==
    LET ids == {scores[i].dashboard1_id : i \in 1..Len(scores)}
                   \cup {scores[i].dashboard2_id : i \in 1..Len(scores)}
    IN  [id \in ids |->
            {scores[i].dashboard2_id :
                 i \in {e \in 1..Len(scores) : scores[e].dashboard1_id = id}}
                \cup
            {scores[i].dashboard1_id :
                 i \in {e \in 1..Len(scores) : scores[e].dashboard2_id = id}}]

\* faulty variant of Connections: an edge is entered for its first
\* dashboard only
ConnectionsOneWay(scores) ==
    LET edges == {i \in 1..Len(scores) :
                     FLe(Point7, scores[i].total_score)}
        ids == {scores[i].dashboard1_id : i \in edges}
    IN  [id \in ids |->
            {scores[i].dashboard2_id :
                 i \in {e \in edges : scores[e].dashboard1_id = id}}]

\* the adjacency of lines 285-290: an entry for every dashboard of a scored
\* pair at or above the review threshold
Connections(scores) ==
    LET edges == {i \in 1..Len(scores) :
                     FLe(consolidation_thresholds.review, scores[i].total_score)}
        ids == {scores[i].dashboard1_id : i \in edges}
                   \cup {scores[i].dashboard2_id : i \in edges}
    IN  [id \in ids |->
            {scores[i].dashboard2_id : i \in {e \in edges : scores[e].dashboard1_id = id}}
                \cup
            {scores[i].dashboard1_id : i \in {e \in edges : scores[e].dashboard2_id = id}}]

\* connections.get(current_id, set())
ConnectionsGet(conn, id) == IF id \in DOMAIN conn THEN conn[id] ELSE {}

\* the orders in which a set can be iterated
Orders(S) ==
    {f \in [1..Cardinality(S) -> S] :
        \A i, j \in 1..Cardinality(S) : i # j => f[i] # f[j]}

\* faulty variant of IsGroup: len(group) > 0
IsGroupNonEmpty(g) == Cardinality(g) > 0

\* len(group) > 1
IsGroup(g) == Cardinality(g) > 1

\* faulty variant of GroupSimilarities: only the pairs that are edges
GroupSimilaritiesOfEdges(scores, group_ids) ==
    LET InsideEdge(sc) ==
            /\ sc.dashboard1_id \in group_ids
            /\ sc.dashboard2_id \in group_ids
            /\ FLe(Point7, sc.total_score)
        inside == SelectSeq(scores, InsideEdge)
    IN  [k \in 1..Len(inside) |-> inside[k].total_score] \o <<>>

\* faulty variant of GroupSimilarities: the pairs with one dashboard in
\* group_ids count as well
GroupSimilaritiesTouching(scores, group_ids) ==
    LET Touching(sc) ==
            sc.dashboard1_id \in group_ids \/ sc.dashboard2_id \in group_ids
        touching == SelectSeq(scores, Touching)
    IN  List([k \in 1..Len(touching) |-> touching[k].total_score])

\* the total_score of every scored pair with both dashboards in group_ids
GroupSimilarities(scores, group_ids) ==
    LET Inside(sc) ==
            sc.dashboard1_id \in group_ids /\ sc.dashboard2_id \in group_ids
        inside == SelectSeq(scores, Inside)
    IN  List([k \in 1..Len(inside) |-> inside[k].total_score])

\* {p.dashboard_id: p for p in profiles}
ProfileLookup(ps) ==
    [id \in {ps[i].dashboard_id : i \in 1..Len(ps)} |->
        ps[CHOOSE i \in 1..Len(ps) :
               /\ ps[i].dashboard_id = id
               /\ \A j \in (i + 1)..Len(ps) : ps[j].dashboard_id # id]]

\* sum(xs) for a list of integers
RECURSIVE Sum(_)
Sum(s) == IF s = <<>> THEN 0 ELSE Head(s) + Sum(Tail(s))

\* faulty variant of SimilarityBucket: the thresholds compared with >
SimilarityBucketStrict(avg_similarity) ==
    IF FLt(Point85, avg_similarity)
    THEN [action |-> "merge", effort_estimate |-> "medium", priority |-> 5]
    ELSE IF FLt(Point7, avg_similarity)
    THEN [action |-> "consolidate", effort_estimate |-> "high", priority |-> 3]
    ELSE [action |-> "review", effort_estimate |-> "low", priority |-> 1]

\* faulty variant of SimilarityBucket: the priorities of merge and review
\* exchanged
SimilarityBucketInverted(avg_similarity) ==
    IF FLe(Point85, avg_similarity)
    THEN [action |-> "merge", effort_estimate |-> "medium", priority |-> 1]
    ELSE IF FLe(Point7, avg_similarity)
    THEN [action |-> "consolidate", effort_estimate |-> "high", priority |-> 3]
    ELSE [action |-> "review", effort_estimate |-> "low", priority |-> 5]

\* action, effort and priority by average similarity (lines 360-374)
SimilarityBucket(avg_similarity) ==
    IF FLe(consolidation_thresholds.merge, avg_similarity)
    THEN [action |-> "merge", effort_estimate |-> "medium", priority |-> 5]
    ELSE IF FLe(consolidation_thresholds.review, avg_similarity)
    THEN [action |-> "consolidate", effort_estimate |-> "high", priority |-> 3]
    ELSE [action |-> "review", effort_estimate |-> "low", priority |-> 1]

\* the adjustment of lines 383-393 to the bucket of the group for the
\* sizes of its dashboards
Escalate(base, total_measures, total_visuals) ==
    IF total_measures > MeasureLimit \/ total_visuals > VisualLimit
    THEN [action |-> base.action,
          effort_estimate |->
              IF base.effort_estimate = "medium" THEN "high"
              ELSE base.effort_estimate,
          priority |-> Max(1, base.priority - 1)]
    ELSE base

_generate_recommendation(group_ids, avg_similarity, profile_lookup) ==
    LET gids == SetToSeq(group_ids)
        group_profiles == List([k \in 1..Len(gids) |-> profile_lookup[gids[k]]])
        total_measures ==
            Sum(List([k \in 1..Len(gids) |-> Len(group_profiles[k].measures)]))
        total_visuals ==
            Sum(List([k \in 1..Len(gids) |->
                         Len(group_profiles[k].visual_elements)]))
    IN  Escalate(SimilarityBucket(avg_similarity), total_measures, total_visuals)

\* the ConsolidationGroup of lines 306-327 for an id set and its average
ConsolidationGroup(i, group_ids, avg_similarity, profile_lookup) ==
    [group_id |-> i,
     dashboard_ids |-> group_ids,
     average_similarity |-> avg_similarity,
     recommendation |->
         _generate_recommendation(group_ids, avg_similarity, profile_lookup)]

\* the ConsolidationGroup for the i-th id set
MakeGroup(i, group_ids, ps, scores) ==
    ConsolidationGroup(i, group_ids,
                       MeanOrZero(GroupSimilarities(scores, group_ids)),
                       ProfileLookup(ps))

\* the inputs of a grouping run
DashIds == <<"A", "B", "C", "D", "E", "F">>

\* total_score of a scored pair, in hundredths
ScoreValues == {40, 70, 85}

\* (measures, visual elements) of a dashboard
SizeOptions == {<<0, 0>>, <<25, 50>>, <<26, 0>>, <<0, 51>>}

FillerMeasure == [measure_name |-> <<"m">>, dax_formula |-> <<>>]

FillerVisual == [visual_type |-> "card", page_name |-> "p1", data_fields |-> <<>>]

Filled(n, x) == List([k \in 1..n |-> x])

InitGroup ==
    /\ CompareIdle
    /\ BatchIdle
    /\ FormulaIdle
    /\ ApiIdle
    /\ \E sizes \in [1..NumDash -> SizeOptions] :
           profiles = List([i \in 1..NumDash |->
                          [dashboard_id |-> DashIds[i],
                           measures |-> Filled(sizes[i][1], FillerMeasure),
                           visual_elements |-> Filled(sizes[i][2], FillerVisual),
                           tables |-> <<>>]])
    /\ LET pairs == PairsFrom(1, 2, NumDash)
       IN  \E totals \in [1..Len(pairs) -> ScoreValues] :
               similarity_scores =
                   SortByTotalDesc(List([k \in 1..Len(pairs) |->
                       [dashboard1_id |-> DashIds[pairs[k][1]],
                        dashboard2_id |-> DashIds[pairs[k][2]],
                        total_score |-> IntDiv(totals[k], 100)]]))
    /\ pc = "start"
    /\ connections = <<>>
    /\ visited = {}
    /\ groups = <<>>
    /\ idx = 0
    /\ stack = <<>>
    /\ group = {}
    /\ consolidation_groups = <<>>

\* faulty variant of BuildConnections: the scores below the review
\* threshold are dropped from the list that was passed in
BuildConnectionsConsuming ==
    /\ pc = "start"
    /\ connections' = Connections(similarity_scores)
    /\ similarity_scores' =
           SelectSeq(similarity_scores,
                     LAMBDA sc : FLe(consolidation_thresholds.review, sc.total_score))
    /\ visited' = {}
    /\ groups' = <<>>
    /\ idx' = 1
    /\ pc' = "profiles"
    /\ UNCHANGED <<profiles, stack, group, consolidation_groups, compareVars, formulaVars, apiVars,
                   batchVars>>

\* lines 285-294
BuildConnections ==
    /\ pc = "start"
    /\ connections' = Connections(similarity_scores)
    /\ visited' = {}
    /\ groups' = <<>>
    /\ idx' = 1
    /\ pc' = "profiles"
    /\ UNCHANGED <<profiles, similarity_scores, stack, group,
                   consolidation_groups, compareVars, formulaVars, apiVars, batchVars>>

\* lines 296-297: the profile is already in a group that was collected
SkipVisited ==
    /\ pc = "profiles"
    /\ idx <= Len(profiles)
    /\ profiles[idx].dashboard_id \in visited
    /\ idx' = idx + 1
    /\ UNCHANGED <<profiles, similarity_scores, pc, connections, visited,
                   groups, stack, group, consolidation_groups, compareVars, formulaVars, apiVars, batchVars>>

\* faulty variant of FindConnectedGroup: every call starts with a visited
\* set of its own
FindConnectedGroupFresh ==
    /\ pc = "profiles"
    /\ idx <= Len(profiles)
    /\ profiles[idx].dashboard_id \notin visited
    /\ visited' = {}
    /\ group' = {}
    /\ stack' = <<profiles[idx].dashboard_id>>
    /\ pc' = "traverse"
    /\ UNCHANGED <<profiles, similarity_scores, connections, groups, idx,
                   consolidation_groups, compareVars, formulaVars, apiVars, batchVars>>

\* lines 298, 334-338: _find_connected_group is entered
FindConnectedGroup ==
    /\ pc = "profiles"
    /\ idx <= Len(profiles)
    /\ profiles[idx].dashboard_id \notin visited
    /\ group' = {}
    /\ stack' = <<profiles[idx].dashboard_id>>
    /\ pc' = "traverse"
    /\ UNCHANGED <<profiles, similarity_scores, connections, visited, groups,
                   idx, consolidation_groups, compareVars, formulaVars, apiVars, batchVars>>

\* lines 340-343: a popped id that is visited already is dropped
PopVisited ==
    /\ pc = "traverse"
    /\ stack # <<>>
    /\ stack[Len(stack)] \in visited
    /\ stack' = SubSeq(stack, 1, Len(stack) - 1)
    /\ UNCHANGED <<profiles, similarity_scores, pc, connections, visited,
                   groups, idx, group, consolidation_groups, compareVars, formulaVars, apiVars, batchVars>>

\* faulty variant of Visit: only one of the unvisited neighbours is pushed
VisitFirstNeighbour ==
    /\ pc = "traverse"
    /\ stack # <<>>
    /\ LET current_id == stack[Len(stack)]
       IN  /\ current_id \notin visited
           /\ visited' = visited \cup {current_id}
           /\ group' = group \cup {current_id}
           /\ \E order \in Orders(ConnectionsGet(connections, current_id)
                                      \ (visited \cup {current_id})) :
                  stack' = SubSeq(stack, 1, Len(stack) - 1)
                               \o SubSeq(order, 1, Min(1, Len(order)))
    /\ UNCHANGED <<profiles, similarity_scores, pc, connections, groups, idx,
                   consolidation_groups, compareVars, formulaVars, apiVars, batchVars>>

\* lines 340-351: a popped id is visited and its unvisited neighbours are
\* pushed, in the order the set happens to be iterated
Visit ==
    /\ pc = "traverse"
    /\ stack # <<>>
    /\ LET current_id == stack[Len(stack)]
       IN  /\ current_id \notin visited
           /\ visited' = visited \cup {current_id}
           /\ group' = group \cup {current_id}
           /\ \E order \in Orders(ConnectionsGet(connections, current_id)
                                      \ (visited \cup {current_id})) :
                  stack' = SubSeq(stack, 1, Len(stack) - 1) \o order
    /\ UNCHANGED <<profiles, similarity_scores, pc, connections, groups, idx,
                   consolidation_groups, compareVars, formulaVars, apiVars, batchVars>>

\* lines 353, 299-300: the traversal returns and a group of several
\* dashboards is kept
ReturnGroup ==
    /\ pc = "traverse"
    /\ stack = <<>>
    /\ groups' = IF IsGroup(group) THEN Append(groups, group) ELSE groups
    /\ group' = {}
    /\ idx' = idx + 1
    /\ pc' = "profiles"
    /\ UNCHANGED <<profiles, similarity_scores, connections, visited, stack,
                   consolidation_groups, compareVars, formulaVars, apiVars, batchVars>>

\* lines 302-330: the ConsolidationGroup records are built and returned
CreateGroups ==
    /\ pc = "profiles"
    /\ idx > Len(profiles)
    /\ consolidation_groups' =
           List([i \in 1..Len(groups) |->
                    MakeGroup(i, groups[i], profiles, similarity_scores)])
    /\ pc' = "done"
    /\ UNCHANGED <<profiles, similarity_scores, connections, visited, groups,
                   idx, stack, group, compareVars, formulaVars, apiVars, batchVars>>

NextGroup ==
    \/ BuildConnections
    \/ SkipVisited
    \/ FindConnectedGroup
    \/ PopVisited
    \/ Visit
    \/ ReturnGroup
    \/ CreateGroups

SpecGroup == InitGroup /\ [][NextGroup]_vars

\* lines 340-353: the steps of the loop of _find_connected_group
Traverse == PopVisited \/ Visit \/ ReturnGroup

\* the loop of _find_connected_group runs on: a step of it that can be
\* taken is taken
SpecGroupFair == SpecGroup /\ WF_vars(Traverse)

----------------------------------------------------------------------------
(* Batch analysis: analyze_batch runs compare_all_dashboards on the        *)
(* profiles, then generate_consolidation_groups on the scores when there   *)
(* are any, and returns both with the summary.                             *)

\* the dashboards of a batch, without their ids: two that differ in their
\* filter fields only, one whose measure has an empty formula, and one
\* with no measures, visual elements or tables
BatchContents ==
    {[measures |-> <<[measure_name |-> <<"T","s">>, dax_formula |-> SumAFormula]>>,
      visual_elements |->
          <<[visual_type |-> "bar", page_name |-> "p1", data_fields |-> <<"f1", "f2">>],
            [visual_type |-> "filter", page_name |-> "p1", data_fields |-> <<"f1">>]>>,
      tables |-> <<[table_name |-> <<"S","a">>]>>],
     [measures |-> <<[measure_name |-> <<"T","s">>, dax_formula |-> SumAFormula]>>,
      visual_elements |->
          <<[visual_type |-> "bar", page_name |-> "p1", data_fields |-> <<"f1">>],
            [visual_type |-> "filter", page_name |-> "p1", data_fields |-> <<"f1", "f2">>]>>,
      tables |-> <<[table_name |-> <<"S","a">>]>>],
     [measures |-> <<[measure_name |-> <<"T","s">>, dax_formula |-> <<>>]>>,
      visual_elements |->
          <<[visual_type |-> "bar", page_name |-> "p1", data_fields |-> <<"f1", "f2">>],
            [visual_type |-> "filter", page_name |-> "p1", data_fields |-> <<"f1">>]>>,
      tables |-> <<[table_name |-> <<"S","a">>]>>],
     [measures |-> <<>>, visual_elements |-> <<>>, tables |-> <<>>]}

\* s without its k-th element
Remove(s, k) == SubSeq(s, 1, k - 1) \o SubSeq(s, k + 1, Len(s))

\* _generate_batch_summary; every profile has the default total_pages of 1
_generate_batch_summary(ps, scores, cgroups) ==
    LET ScoreIdx == 1..Len(scores)
        merge == {k \in 1..Len(cgroups) : cgroups[k].recommendation.action = "merge"}
        merge_groups == Cardinality(merge)
        dashboards_in_merge_groups ==
            Sum(List([k \in 1..Len(cgroups) |->
                         IF k \in merge
                         THEN Cardinality(cgroups[k].dashboard_ids) ELSE 0]))
        potential_reduction ==
            IF merge_groups > 0 THEN dashboards_in_merge_groups - merge_groups ELSE 0
    IN  [total_dashboards |-> Len(ps),
         total_views |-> Len(ps),
         total_measures |-> Sum(List([i \in 1..Len(ps) |-> Len(ps[i].measures)])),
         total_visuals |->
             Sum(List([i \in 1..Len(ps) |-> Len(ps[i].visual_elements)])),
         similarity_analysis |->
             [total_pairs |-> Len(scores),
              high_similarity |->
                  Cardinality({k \in ScoreIdx : FLe(Point85, scores[k].total_score)}),
              medium_similarity |->
                  Cardinality({k \in ScoreIdx :
                              /\ FLe(Point7, scores[k].total_score)
                              /\ FLt(scores[k].total_score, Point85)}),
              low_similarity |->
                  Cardinality({k \in ScoreIdx : FLt(scores[k].total_score, Point7)}),
              average_similarity |->
                  MeanOrZero(List([k \in ScoreIdx |-> scores[k].total_score]))],
         consolidation_potential |->
             [merge_groups |-> merge_groups,
              review_groups |->
                  Cardinality({k \in 1..Len(cgroups) :
                              cgroups[k].recommendation.action = "review"}),
              potential_dashboard_reduction |-> potential_reduction,
              reduction_percentage |->
                  IF Len(ps) > 0
                  THEN FMul(IntDiv(potential_reduction, Len(ps)), FromInt(100))
                  ELSE Zero]]

\* analyze_batch is called with at most NumDash profiles and no weights
InitBatch ==
    /\ CompareIdle
    /\ \E n \in 0..NumDash :
           \E contents \in [1..n -> BatchContents] :
               profiles = List([i \in 1..n |->
                              [dashboard_id |-> DashIds[i],
                               measures |-> contents[i].measures,
                               visual_elements |-> contents[i].visual_elements,
                               tables |-> contents[i].tables]])
    /\ similarity_scores = <<>>
    /\ pc = "call"
    /\ connections = <<>>
    /\ visited = {}
    /\ groups = <<>>
    /\ idx = 0
    /\ stack = <<>>
    /\ group = {}
    /\ consolidation_groups = <<>>
    /\ BatchIdle
    /\ FormulaIdle
    /\ ApiIdle

\* lines 43-48: compare_all_dashboards is entered; the number of profiles
\* is not tested here or in analyze_batch
CompareAllDashboards ==
    /\ pc = "call"
    /\ similarity_scores' = <<>>
    /\ pending' = PairsFrom(1, 2, Len(profiles))
    /\ pc' = "sweep"
    /\ UNCHANGED <<profiles, connections, visited, groups, idx, stack, group,
                   consolidation_groups, result, compareVars, formulaVars, apiVars>>

\* lines 53-54 for the k-th of the pairs still to compare
CompareAt(k) ==
    /\ similarity_scores' =
           Append(similarity_scores,
                  compare_dashboards(profiles[pending[k][1]],
                                     profiles[pending[k][2]], weights))
    /\ pending' = Remove(pending, k)
    /\ UNCHANGED <<profiles, pc, connections, visited, groups, idx, stack,
                   group, consolidation_groups, result, compareVars, formulaVars, apiVars>>

\* lines 51-54: the next pair of the two loops is compared
ComparePair ==
    /\ pc = "sweep"
    /\ pending # <<>>
    /\ CompareAt(1)

\* faulty variant of SortScores: the list is returned as it was filled
SortScoresSkipped ==
    /\ pc = "sweep"
    /\ pending = <<>>
    /\ pc' = "compared"
    /\ UNCHANGED <<profiles, similarity_scores, connections, visited, groups,
                   idx, stack, group, consolidation_groups, batchVars,
                   compareVars, formulaVars, apiVars>>

\* lines 57-60: the scores are sorted and returned
SortScores ==
    /\ pc = "sweep"
    /\ pending = <<>>
    /\ similarity_scores' = SortByTotalDesc(similarity_scores)
    /\ pc' = "compared"
    /\ UNCHANGED <<profiles, connections, visited, groups, idx, stack, group,
                   consolidation_groups, batchVars, compareVars, formulaVars, apiVars>>

\* lines 407-411: the groups are generated when there is a score
GenerateGroups ==
    /\ pc = "compared"
    /\ pc' = IF similarity_scores # <<>> THEN "start" ELSE "done"
    /\ consolidation_groups' = <<>>
    /\ UNCHANGED <<profiles, similarity_scores, connections, visited, groups,
                   idx, stack, group, batchVars, compareVars, formulaVars, apiVars>>

\* a measure of the profile has an empty formula
HasEmptyFormula(p) ==
    \E i \in 1..Len(p.measures) : p.measures[i].dax_formula = <<>>

\* faulty variant of ReturnBatch: a profile with an empty formula makes the
\* run end in the except branch of lines 427-433
ReturnBatchAborting ==
    /\ pc = "done"
    /\ result' =
           IF \E i \in 1..Len(profiles) : HasEmptyFormula(profiles[i])
           THEN [similarity_scores |-> <<>>, consolidation_groups |-> <<>>,
                 summary |-> <<>>]
           ELSE [similarity_scores |-> similarity_scores,
                 consolidation_groups |-> consolidation_groups,
                 summary |-> _generate_batch_summary(profiles, similarity_scores,
                                                     consolidation_groups)]
    /\ pc' = "returned"
    /\ UNCHANGED <<profiles, similarity_scores, connections, visited, groups,
                   idx, stack, group, consolidation_groups, pending, compareVars, formulaVars, apiVars>>

\* lines 413-425: the summary is made and the dict returned.  The except
\* branch of lines 427-433 is not taken: no step of the run raises for
\* profiles of the declared types
ReturnBatch ==
    /\ pc = "done"
    /\ result' =
           [similarity_scores |-> similarity_scores,
            consolidation_groups |-> consolidation_groups,
            summary |-> _generate_batch_summary(profiles, similarity_scores,
                                                consolidation_groups)]
    /\ pc' = "returned"
    /\ UNCHANGED <<profiles, similarity_scores, connections, visited, groups,
                   idx, stack, group, consolidation_groups, pending, compareVars, formulaVars, apiVars>>

NextBatch ==
    \/ CompareAllDashboards
    \/ ComparePair
    \/ SortScores
    \/ GenerateGroups
    \/ BuildConnections
    \/ SkipVisited
    \/ FindConnectedGroup
    \/ PopVisited
    \/ Visit
    \/ ReturnGroup
    \/ CreateGroups
    \/ ReturnBatch

SpecBatch == InitBatch /\ [][NextBatch]_vars

----------------------------------------------------------------------------
(* compare_all_dashboards with the bodies of its two loops (lines 53-54)   *)
(* run in any order: each comparison reads two profiles and the weights,   *)
(* and its score is appended to the list when it completes; the sort of    *)
(* line 57 follows the last of them.                                       *)

\* lines 53-54 for any of the pairs still to compare
CompareAnyPair ==
    /\ pc = "sweep"
    /\ \E k \in 1..Len(pending) : CompareAt(k)

NextAnyOrder ==
    \/ CompareAllDashboards
    \/ CompareAnyPair
    \/ SortScores

SpecAnyOrder == InitBatch /\ [][NextAnyOrder]_vars

----------------------------------------------------------------------------
(* Comparison of two measures: MetadataProcessor.compare_measures is       *)
(* called on a pair of measures.                                           *)

\* the formulas of the measures: empty, whitespace only, one function,
\* the same in another case and spacing, another argument, an inserted
\* character, no function, one and two logical functions
FormulaUniverse ==
    {<<>>, <<" ">>, SumAFormula, <<"s","u","m"," ","(","a",")">>,
     <<"S","U","M","(","B",")">>, <<"S","U","M","X","(","A",")">>, <<"A">>,
     <<"I","F","(","A",")">>, IfOrFormula}

InitFormula ==
    /\ \E formula1 \in FormulaUniverse, formula2 \in FormulaUniverse :
           /\ measure1 = [measure_name |-> <<"T","s">>, dax_formula |-> formula1]
           /\ measure2 = [measure_name |-> <<"T","s">>, dax_formula |-> formula2]
    /\ comparison = None
    /\ CompareIdle
    /\ GroupIdle
    /\ BatchIdle
    /\ ApiIdle

CompareMeasures ==
    /\ comparison = None
    /\ comparison' = compare_measures(measure1, measure2)
    /\ UNCHANGED <<measure1, measure2, compareVars, groupVars, batchVars, apiVars>>

NextFormula == CompareMeasures

SpecFormula == InitFormula /\ [][NextFormula]_vars

----------------------------------------------------------------------------
(* Properties of the pairwise comparison.                                  *)

NonDegenerate(p) ==
    p.measures # <<>> \/ p.visual_elements # <<>> \/ p.tables # <<>>

\* C1 (self-identity): comparing a profile that has at least one non-empty
\* collection with itself gives total_score exactly 1.0.
SelfIdentity ==
    (scoreAB # None /\ dashboard2 = dashboard1 /\ NonDegenerate(dashboard1))
        => scoreAB.total_score = One

SubScores(score) ==
    <<score.breakdown.measures_score, score.breakdown.visuals_score,
      score.breakdown.data_model_score, score.breakdown.layout_score,
      score.breakdown.filters_score>>

Tolerance == <<Mantissa(<<0, 0, 0, 128>>), -92>>

\* |x - y| <= 2^-40
Close(x, y) == FLe(IF FLt(x, y) THEN FSub(y, x) ELSE FSub(x, y), Tolerance)

StrictlyInside(x) == FLt(Zero, x) /\ FLt(x, One)

InUnit(x) == FLe(Zero, x) /\ FLe(x, One)

\* C3 (range): each of the five sub-scores and the total_score of a
\* comparison under the default weights lies in [0, 1].
ScoreRange ==
    scoreAB # None
        => /\ \A i \in 1..5 : InUnit(SubScores(scoreAB)[i])
           /\ InUnit(scoreAB.total_score)

\* a comparison of two identical non-empty profiles that scores 1.0 on
\* every dimension, and so reaches the upper end of the range
ScoreRangeWitness ==
    /\ scoreAB # None
    /\ dashboard1.measures # <<>>
    /\ dashboard1.visual_elements # <<>>
    /\ \A i \in 1..5 : SubScores(scoreAB)[i] = One
    /\ FLe(Point7, scoreAB.total_score)

NoFilters(visuals) ==
    \A i \in 1..Len(visuals) : visuals[i].visual_type # "filter"

\* both sides empty gives 1.0, exactly one side empty gives 0.0
Convention(empty1, empty2, score) ==
    /\ (empty1 /\ empty2) => score = One
    /\ (empty1 # empty2) => score = Zero

\* C4 (empty convention): each comparator returns 1.0 when both dashboards
\* have no elements of its kind and 0.0 when exactly one has none: measures
\* on the measure list, visuals and layout on the visual-element list,
\* data_model on the table list, filters on the filter-typed visuals.
EmptyConvention ==
    scoreAB # None
        => /\ Convention(dashboard1.measures = <<>>, dashboard2.measures = <<>>,
                         scoreAB.breakdown.measures_score)
           /\ Convention(dashboard1.visual_elements = <<>>,
                         dashboard2.visual_elements = <<>>,
                         scoreAB.breakdown.visuals_score)
           /\ Convention(dashboard1.visual_elements = <<>>,
                         dashboard2.visual_elements = <<>>,
                         scoreAB.breakdown.layout_score)
           /\ Convention(dashboard1.tables = <<>>, dashboard2.tables = <<>>,
                         scoreAB.breakdown.data_model_score)
           /\ Convention(NoFilters(dashboard1.visual_elements),
                         NoFilters(dashboard2.visual_elements),
                         scoreAB.breakdown.filters_score)

\* a comparison in which the measures are empty on both sides, the tables on
\* one side only, and only one side has a filter among its visuals
EmptyConventionWitness ==
    /\ scoreAB # None
    /\ dashboard1.measures = <<>> /\ dashboard2.measures = <<>>
    /\ dashboard1.tables = <<>> /\ dashboard2.tables # <<>>
    /\ dashboard1.visual_elements # <<>> /\ dashboard2.visual_elements # <<>>
    /\ NoFilters(dashboard1.visual_elements)
    /\ ~NoFilters(dashboard2.visual_elements)

----------------------------------------------------------------------------
(* Properties of the consolidation groups.                                 *)

ProfileIds == {profiles[i].dashboard_id : i \in 1..Len(profiles)}

\* a and b are the two dashboards of a scored pair at or above the review
\* threshold
ReviewEdge(a, b) ==
    \E i \in 1..Len(similarity_scores) :
        /\ {similarity_scores[i].dashboard1_id,
            similarity_scores[i].dashboard2_id} = {a, b}
        /\ FLe(Point7, similarity_scores[i].total_score)

\* the dashboards joined to a dashboard of S by a chain of such pairs
RECURSIVE Chained(_)
Chained(S) ==
    LET next == S \cup {b \in ProfileIds : \E a \in S : ReviewEdge(a, b)}
    IN  IF next = S THEN S ELSE Chained(next)

GroupSets == {consolidation_groups[i].dashboard_ids :
                 i \in 1..Len(consolidation_groups)}

\* C5 (grouping soundness): any two dashboards of one returned group are
\* joined by a chain of scored pairs each with total_score >= 0.70.
GroupingSoundness ==
    pc = "done"
        => \A g \in GroupSets : \A a, b \in g : b \in Chained({a})

\* a run that returns a group and leaves a dashboard outside it
GroupingSoundnessWitness ==
    /\ pc = "done"
    /\ \E g \in GroupSets : Cardinality(g) = 2 /\ g # ProfileIds

\* C6 (grouping maximality): no scored pair with total_score >= 0.70 has its
\* dashboards in two different groups, and dashboards joined by a chain of
\* such pairs are members of one group, also when their own pair scores
\* below the threshold.
GroupingMaximality ==
    pc = "done"
        => /\ \A i \in 1..Len(similarity_scores) :
                  FLe(Point7, similarity_scores[i].total_score)
                      => \A g \in GroupSets :
                             similarity_scores[i].dashboard1_id \in g
                                 <=> similarity_scores[i].dashboard2_id \in g
           /\ \A a \in ProfileIds : \A b \in Chained({a}) \ {a} :
                  \E g \in GroupSets : {a, b} \subseteq g

\* a run that returns one group of three dashboards, two of which are joined
\* only through the third
GroupingMaximalityWitness ==
    /\ pc = "done"
    /\ \E g \in GroupSets :
           /\ Cardinality(g) = 3
           /\ \E a, b \in g : a # b /\ ~ReviewEdge(a, b)

\* C7: every returned group has at least 2 distinct member dashboards; a
\* dashboard joined to no other never becomes a group.
GroupSize ==
    pc = "done"
        => /\ \A g \in GroupSets : Cardinality(g) >= 2
           /\ \A a \in ProfileIds :
                  Chained({a}) = {a} => \A g \in GroupSets : a \notin g

\* a run with a dashboard that is joined to no other, and no group at all
GroupSizeWitness ==
    /\ pc = "done"
    /\ \E a \in ProfileIds : Chained({a}) = {a}
    /\ \E i \in 1..Len(profiles) : idx > i /\ profiles[i].dashboard_id \in visited
    /\ consolidation_groups = <<>>

\* the scored pairs with both dashboards in g
PairsInside(g) ==
    {i \in 1..Len(similarity_scores) :
        /\ similarity_scores[i].dashboard1_id \in g
        /\ similarity_scores[i].dashboard2_id \in g}

\* the sum of the total_score of the scored pairs I from pair i on, added to
\* acc in the order of the score list
RECURSIVE SumTotals(_, _, _)
SumTotals(I, i, acc) ==
    IF i > Len(similarity_scores) THEN acc
    ELSE SumTotals(I, i + 1,
                   IF i \in I
                   THEN FAdd(acc, similarity_scores[i].total_score) ELSE acc)

\* C8: a group's average_similarity is the arithmetic mean of total_score
\* over every scored pair with both dashboards in the group, the pairs below
\* the review threshold included.
AverageOverAllPairs ==
    pc = "done"
        => \A k \in 1..Len(consolidation_groups) :
               LET g == consolidation_groups[k]
                   inside == PairsInside(g.dashboard_ids)
               IN  /\ inside # {}
                   /\ g.average_similarity
                          = FDivInt(SumTotals(inside, 1, Zero), Cardinality(inside))

\* a returned group whose average is pulled below the review threshold by a
\* pair inside it that is no edge
AverageOverAllPairsWitness ==
    /\ pc = "done"
    /\ \E k \in 1..Len(consolidation_groups) :
           FLt(consolidation_groups[k].average_similarity, Point7)

\* the measures and the visual elements of the members of g
TotalMeasures(g) ==
    Sum(List([i \in 1..Len(profiles) |->
                 IF profiles[i].dashboard_id \in g
                 THEN Len(profiles[i].measures) ELSE 0]))

TotalVisuals(g) ==
    Sum(List([i \in 1..Len(profiles) |->
                 IF profiles[i].dashboard_id \in g
                 THEN Len(profiles[i].visual_elements) ELSE 0]))

Escalated(g) == TotalMeasures(g) > 50 \/ TotalVisuals(g) > 100

\* C9 (recommendation buckets): a group that does not trigger the
\* escalation rule gets merge / medium / 5 when average_similarity >= 0.85,
\* consolidate / high / 3 when 0.70 <= average_similarity < 0.85, and
\* review / low / 1 when average_similarity < 0.70.
RecommendationBuckets ==
    pc = "done"
        => \A k \in 1..Len(consolidation_groups) :
               LET g == consolidation_groups[k]
                   avg == g.average_similarity
                   rec == g.recommendation
               IN  ~Escalated(g.dashboard_ids)
                       => /\ FLe(Point85, avg)
                                 => rec = [action |-> "merge",
                                           effort_estimate |-> "medium",
                                           priority |-> 5]
                          /\ (FLe(Point7, avg) /\ FLt(avg, Point85))
                                 => rec = [action |-> "consolidate",
                                           effort_estimate |-> "high",
                                           priority |-> 3]
                          /\ FLt(avg, Point7)
                                 => rec = [action |-> "review",
                                           effort_estimate |-> "low",
                                           priority |-> 1]

\* a group of three at exactly the 50 measures and 100 visual elements that
\* do not escalate, with an average of exactly 0.85
RecommendationBucketsWitness ==
    /\ pc = "done"
    /\ \E k \in 1..Len(consolidation_groups) :
           LET g == consolidation_groups[k]
           IN  /\ Cardinality(g.dashboard_ids) = 3
               /\ TotalMeasures(g.dashboard_ids) = 50
               /\ TotalVisuals(g.dashboard_ids) = 100
               /\ g.average_similarity = Point85
               /\ g.recommendation.action = "merge"

\* one step toward "high"
BumpedEffort(effort) == IF effort = "low" THEN "medium" ELSE "high"

BasePriority(action) ==
    IF action = "merge" THEN 5 ELSE IF action = "consolidate" THEN 3 ELSE 1

BaseEffort(action) ==
    IF action = "merge" THEN "medium"
    ELSE IF action = "consolidate" THEN "high" ELSE "low"

BaseAction(avg) ==
    IF FLe(Point85, avg) THEN "merge"
    ELSE IF FLe(Point7, avg) THEN "consolidate" ELSE "review"

\* C10 (escalation rule): for a group with more than 50 measures or more
\* than 100 visual elements, in every similarity bucket the effort is bumped
\* one step toward high and the priority is the bucket's priority minus 1,
\* never below 1, the action unchanged; a group at or below both limits
\* keeps the bucket's effort and priority.
EscalationRule ==
    pc = "done"
        => \A k \in 1..Len(consolidation_groups) :
               LET g == consolidation_groups[k]
                   rec == g.recommendation
                   action == BaseAction(g.average_similarity)
               IN  /\ rec.action = action
                   /\ Escalated(g.dashboard_ids)
                          => /\ rec.effort_estimate = BumpedEffort(BaseEffort(action))
                             /\ rec.priority = Max(1, BasePriority(action) - 1)
                   /\ ~Escalated(g.dashboard_ids)
                          => /\ rec.effort_estimate = BaseEffort(action)
                             /\ rec.priority = BasePriority(action)

\* the averages at which two recommendations are compared, in hundredths:
\* the thresholds and values on both sides of each
AverageCandidates == {0, 40, 69, 70, 71, 84, 85, 86, 100}

ActionRank(action) ==
    IF action = "review" THEN 1 ELSE IF action = "consolidate" THEN 2 ELSE 3

\* the recommendation for the dashboards of g when their average is avg
RecommendationAt(g, avg) ==
    _generate_recommendation(g.dashboard_ids, avg, ProfileLookup(profiles))

\* C11 (recommendation monotonicity): for two groups with the same measure
\* and visual totals (the same dashboards, at two averages), if the first
\* average_similarity is less than or equal to the second, then the first
\* priority is less than or equal to the second and the first action is not
\* higher than the second in the order review < consolidate < merge.
RecommendationMonotonicity ==
    pc = "done"
        => \A k \in 1..Len(consolidation_groups) :
               LET g == consolidation_groups[k]
                   averages == {IntDiv(c, 100) : c \in AverageCandidates}
                                   \cup {g.average_similarity}
               IN  /\ RecommendationAt(g, g.average_similarity) = g.recommendation
                   /\ \A a, b \in averages :
                          FLe(a, b)
                              => /\ RecommendationAt(g, a).priority
                                        <= RecommendationAt(g, b).priority
                                 /\ ActionRank(RecommendationAt(g, a).action)
                                        <= ActionRank(RecommendationAt(g, b).action)

\* a group over the limits whose recommendation is review with priority 1,
\* and which at an average of 0.85 would be merge with priority 4
RecommendationMonotonicityWitness ==
    /\ pc = "done"
    /\ \E k \in 1..Len(consolidation_groups) :
           LET g == consolidation_groups[k]
           IN  /\ Escalated(g.dashboard_ids)
               /\ FLt(g.average_similarity, Point7)
               /\ g.recommendation.action = "review"
               /\ g.recommendation.priority = 1
               /\ RecommendationAt(g, Point85).action = "merge"
               /\ RecommendationAt(g, Point85).priority = 4

----------------------------------------------------------------------------
(* Properties of the batch analysis.                                       *)

\* compare_all_dashboards has returned its list
Compared == pc \notin {"idle", "call", "sweep"}

\* the position in profiles of the dashboard with the given id
PositionOf(id) == CHOOSE i \in 1..Len(profiles) : profiles[i].dashboard_id = id

\* the index pair a score was made for
PairOf(sc) == <<PositionOf(sc.dashboard1_id), PositionOf(sc.dashboard2_id)>>

\* the pair p is generated before the pair q by the two loops
GeneratedBefore(p, q) == p[1] < q[1] \/ (p[1] = q[1] /\ p[2] < q[2])

\* C12 (pair sweep): compare_all_dashboards on n profiles returns exactly
\* n(n-1)/2 scores, one for each index pair i < j and none for i = j or
\* j < i, ordered by total_score descending, the scores of equal total_score
\* in the order in which their pairs were generated.
PairSweep ==
    Compared
        => LET n == Len(profiles)
               scores == similarity_scores
           IN  /\ 2 * Len(scores) = n * (n - 1)
               /\ \A k \in 1..Len(scores) : PairOf(scores[k])[1] < PairOf(scores[k])[2]
               /\ \A i, j \in 1..n :
                      i < j => \E k \in 1..Len(scores) : PairOf(scores[k]) = <<i, j>>
               /\ \A k, l \in 1..Len(scores) :
                      k < l
                          => /\ FLe(scores[l].total_score, scores[k].total_score)
                             /\ scores[l].total_score = scores[k].total_score
                                    => GeneratedBefore(PairOf(scores[k]),
                                                       PairOf(scores[l]))

\* three profiles whose last pair scores highest and whose first two pairs
\* tie: the last pair comes first, the tied ones keep their order
PairSweepWitness ==
    /\ pc = "compared"
    /\ Len(similarity_scores) = 3
    /\ PairOf(similarity_scores[1]) = <<2, 3>>
    /\ PairOf(similarity_scores[2]) = <<1, 2>>
    /\ PairOf(similarity_scores[3]) = <<1, 3>>
    /\ similarity_scores[2].total_score = similarity_scores[3].total_score
    /\ FLt(similarity_scores[2].total_score, similarity_scores[1].total_score)

\* 0.4 * measures + 0.3 * visuals + 0.2 * data_model + 0.1 * layout, the
\* products added from left to right
WeightedTotal(b) ==
    FAdd(FAdd(FAdd(FMul(b.measures_score, Point4),
                   FMul(b.visuals_score, Point3)),
              FMul(b.data_model_score, Point2)),
         FMul(b.layout_score, Point1))

\* the breakdowns agree on the four sub-scores other than filters_score
SameWeighted(b1, b2) ==
    /\ b1.measures_score = b2.measures_score
    /\ b1.visuals_score = b2.visuals_score
    /\ b1.data_model_score = b2.data_model_score
    /\ b1.layout_score = b2.layout_score

\* C13 (weighted total): under the default weights total_score equals
\* 0.4 * measures + 0.3 * visuals + 0.2 * data_model + 0.1 * layout;
\* filters_score is in the breakdown but is not a term of the total, so two
\* comparisons that agree on the other four sub-scores have the same
\* total_score whatever their filters_score.
FiltersNotInTotal ==
    (Compared /\ weights = default_weights)
        => /\ \A k \in 1..Len(similarity_scores) :
                  /\ similarity_scores[k].total_score
                         = WeightedTotal(similarity_scores[k].breakdown)
                  /\ "filters_score" \in DOMAIN similarity_scores[k].breakdown
           /\ \A k, l \in 1..Len(similarity_scores) :
                  SameWeighted(similarity_scores[k].breakdown,
                               similarity_scores[l].breakdown)
                      => similarity_scores[k].total_score
                             = similarity_scores[l].total_score

\* two scores of one batch with the same four weighted sub-scores and the
\* filters scores 1.0 and 0.5
FiltersNotInTotalWitness ==
    /\ pc = "compared"
    /\ \E k, l \in 1..Len(similarity_scores) :
           /\ SameWeighted(similarity_scores[k].breakdown,
                           similarity_scores[l].breakdown)
           /\ similarity_scores[k].breakdown.filters_score = One
           /\ similarity_scores[l].breakdown.filters_score = Point5
           /\ similarity_scores[k].total_score = similarity_scores[l].total_score

\* C14 (insufficient corpus): a batch run (compare_all_dashboards or
\* analyze_batch) given fewer than 2 profiles surfaces an explicit
\* precondition failure to its caller instead of returning a normal result:
\* neither the score list nor the dict of analyze_batch is returned.
InsufficientCorpus ==
    Len(profiles) < 2 => (pc # "compared" /\ pc # "returned")

\* C15 (error absorption): in a batch run an anomaly of one pair (a
\* dashboard without measures, visual elements or tables) or of one formula
\* (an empty formula) is absorbed with a zero or neutral default: the run
\* raises nothing and returns the dict with a score for every pair, each
\* the score of its two dashboards alone, with every sub-score in [0, 1]
\* and a measures score of 0.0 where one side has no measures.
ErrorAbsorption ==
    (pc = "returned" /\ Len(profiles) >= 2)
        => /\ DOMAIN result
                  = {"similarity_scores", "consolidation_groups", "summary"}
           /\ 2 * Len(result.similarity_scores)
                  = Len(profiles) * (Len(profiles) - 1)
           /\ \A i, j \in 1..Len(profiles) :
                  i < j
                      => \E k \in 1..Len(result.similarity_scores) :
                             result.similarity_scores[k]
                                 = compare_dashboards(profiles[i], profiles[j],
                                                      default_weights)
           /\ \A k \in 1..Len(result.similarity_scores) :
                  LET sc == result.similarity_scores[k]
                      p1 == profiles[PairOf(sc)[1]]
                      p2 == profiles[PairOf(sc)[2]]
                  IN  /\ \A x \in 1..5 : InUnit(SubScores(sc)[x])
                      /\ InUnit(sc.total_score)
                      /\ (p1.measures = <<>>) # (p2.measures = <<>>)
                             => sc.breakdown.measures_score = Zero

\* a returned batch of three: one dashboard with an empty formula, one
\* without any element, one regular; all three scores are there and the
\* pair with the empty formula has a measures score strictly between 0 and 1
ErrorAbsorptionWitness ==
    /\ pc = "returned"
    /\ Len(profiles) = 3
    /\ HasEmptyFormula(profiles[1])
    /\ profiles[2].measures = <<>>
    /\ ~HasEmptyFormula(profiles[3]) /\ profiles[3].measures # <<>>
    /\ Len(result.similarity_scores) = 3
    /\ \E k \in 1..3 :
           /\ PairOf(result.similarity_scores[k]) = <<1, 3>>
           /\ FLt(Zero, result.similarity_scores[k].breakdown.measures_score)
           /\ FLt(result.similarity_scores[k].breakdown.measures_score, One)

----------------------------------------------------------------------------
(* Properties of the measures comparator and of the formula comparison.    *)

\* the names of a measure list, compared without regard to case
FoldedNames(measures) ==
    {Upper(measures[i].measure_name) : i \in 1..Len(measures)}

\* the formula similarities of the pairs of measures with the same name
\* without regard to case, from the pair (i, j) on, the first list outside
RECURSIVE MatchedFrom(_, _, _, _)
MatchedFrom(measures1, measures2, i, j) ==
    IF i > Len(measures1) THEN <<>>
    ELSE IF j > Len(measures2) THEN MatchedFrom(measures1, measures2, i + 1, 1)
    ELSE (IF Upper(measures1[i].measure_name) = Upper(measures2[j].measure_name)
          THEN <<compare_measures(measures1[i], measures2[j]).overall_similarity>>
          ELSE <<>>)
             \o MatchedFrom(measures1, measures2, i, j + 1)

\* 0.6 * name Jaccard + 0.4 * mean formula similarity of the matched pairs
MeasuresFormula(measures1, measures2) ==
    FAdd(FMul(IntDiv(Cardinality(FoldedNames(measures1) \cap FoldedNames(measures2)),
                     Cardinality(FoldedNames(measures1) \cup FoldedNames(measures2))),
              Point6),
         FMul(MeanOrZero(MatchedFrom(measures1, measures2, 1, 1)), Point4))

\* C16 (measures comparator): when both measure lists are non-empty,
\* measures_score = 0.6 * (case-insensitive Jaccard of the two measure-name
\* sets) + 0.4 * (mean formula similarity over the measure pairs whose names
\* match case-insensitively, 0 when no names match); one measure against
\* the same measure and a second one gives 0.70.
MeasuresComparator ==
    (scoreAB # None /\ dashboard1.measures # <<>> /\ dashboard2.measures # <<>>)
        => /\ scoreAB.breakdown.measures_score
                  = MeasuresFormula(dashboard1.measures, dashboard2.measures)
           /\ (/\ Len(dashboard1.measures) = 1
               /\ Len(dashboard2.measures) = 2
               /\ dashboard2.measures[1] = dashboard1.measures[1]
               /\ Upper(dashboard2.measures[2].measure_name)
                      # Upper(dashboard1.measures[1].measure_name)
               /\ dashboard1.measures[1].dax_formula # <<>>)
                  => scoreAB.breakdown.measures_score = Point7

\* the example: one measure with the formula SUM(A) against the same
\* measure and a measure of another name, scored 0.70
MeasuresComparatorWitness ==
    /\ scoreAB # None
    /\ Len(dashboard1.measures) = 1
    /\ Len(dashboard2.measures) = 2
    /\ dashboard1.measures[1].dax_formula = SumAFormula
    /\ dashboard2.measures[1] = dashboard1.measures[1]
    /\ dashboard2.measures[2].measure_name = <<"A","v">>
    /\ scoreAB.breakdown.measures_score = Point7

\* the pairs of measures that a batch hands to compare_measures: equal
\* names without regard to case, in two different profiles
ComparedMeasures ==
    {mm \in UNION {Range(profiles[i].measures) \X Range(profiles[j].measures) :
                       i \in 1..Len(profiles), j \in 1..Len(profiles)} :
         Upper(mm[1].measure_name) = Upper(mm[2].measure_name)}

\* C17 (formula-compare convention): every sub-metric of compare_measures
\* returns 1.0 when both of its inputs are empty and 0.0 when exactly one is
\* empty: the function lists for the function-set Jaccard, the indicator
\* records of an empty and of a non-empty formula for the structure
\* similarity, the formula texts for the string similarity.
FormulaConvention ==
    Compared =>
        \A mm \in ComparedMeasures :
            /\ Convention(analyze_dax_formula(mm[1].dax_formula).used_functions = {},
                          analyze_dax_formula(mm[2].dax_formula).used_functions = {},
                          compare_measures(mm[1], mm[2]).function_similarity)
            /\ Convention(mm[1].dax_formula = <<>>, mm[2].dax_formula = <<>>,
                          compare_measures(mm[1], mm[2]).structure_similarity)
            /\ Convention(mm[1].dax_formula = <<>>, mm[2].dax_formula = <<>>,
                          compare_measures(mm[1], mm[2]).string_similarity)

----------------------------------------------------------------------------
(* Frame and order properties of the engine.                               *)

\* the list of the serial sweep over the pairs i < j, sorted
SerialSweep(ps, w) ==
    SortByTotalDesc(
        List([k \in 1..Len(PairsFrom(1, 2, Len(ps))) |->
                 compare_dashboards(ps[PairsFrom(1, 2, Len(ps))[k][1]],
                                    ps[PairsFrom(1, 2, Len(ps))[k][2]], w)]))

----------------------------------------------------------------------------
(* Properties of the comparison of two measures.                           *)

\* a text without its whitespace, in upper case
Squeezed(text) == SelectSeq(Upper(text), LAMBDA c : c # " ")

\* the number of positions below the shorter length at which the texts
\* agree, over the longer length
PositionalRatio(norm1, norm2) ==
    IntDiv(Cardinality({i \in 1..Min(Len(norm1), Len(norm2)) : norm1[i] = norm2[i]}),
           Max(Len(norm1), Len(norm2)))

\* the similarity of one indicator
IndicatorSimilarity(a, b) ==
    IF a = 0 /\ b = 0 THEN One
    ELSE IF a = 0 \/ b = 0 THEN Zero
    ELSE FSub(One, IntDiv(Abs(a - b), Max(a, b)))

IndicatorNames ==
    <<"nested_functions", "filter_contexts", "time_intelligence", "iterators",
      "logical_functions">>

\* the mean of the similarities of the indicators of two formulas
IndicatorMean(formula1, formula2) ==
    FMean(List([k \in 1..Len(IndicatorNames) |->
        IndicatorSimilarity(
            analyze_dax_formula(formula1).complexity_indicators[IndicatorNames[k]],
            analyze_dax_formula(formula2).complexity_indicators[IndicatorNames[k]])]))

\* overall = 0.4 * function + 0.3 * structure + 0.3 * string; function is
\* the Jaccard of the function sets when one of them is not empty, and
\* structure the mean over the indicators when both formulas are not empty
WeightedParts ==
    /\ comparison.overall_similarity
           = FAdd(FAdd(FMul(comparison.function_similarity, Point4),
                       FMul(comparison.structure_similarity, Point3)),
                  FMul(comparison.string_similarity, Point3))
    /\ (analyze_dax_formula(measure1.dax_formula).used_functions
            \cup analyze_dax_formula(measure2.dax_formula).used_functions) # {}
           => comparison.function_similarity
                  = IntDiv(Cardinality(
                               analyze_dax_formula(measure1.dax_formula).used_functions
                                   \cap analyze_dax_formula(measure2.dax_formula).used_functions),
                           Cardinality(
                               analyze_dax_formula(measure1.dax_formula).used_functions
                                   \cup analyze_dax_formula(measure2.dax_formula).used_functions))
    /\ (measure1.dax_formula # <<>> /\ measure2.dax_formula # <<>>)
           => comparison.structure_similarity
                  = IndicatorMean(measure1.dax_formula, measure2.dax_formula)

\* C20 (formula comparison): overall_similarity = 0.4 * function-set
\* Jaccard + 0.3 * structure similarity + 0.3 * string similarity, the
\* structure similarity being the mean over the indicators of (1.0 if both
\* counts are 0, 0.0 if exactly one is 0, otherwise 1 - |a-b|/max(a,b)),
\* and the string similarity 1.0 for texts equal after whitespace removal
\* and upper-casing and otherwise the number of agreeing positions below
\* the shorter length divided by the longer length.
FormulaComparison ==
    comparison # None
        => /\ WeightedParts
           /\ comparison.string_similarity
                  = IF Squeezed(measure1.dax_formula) = Squeezed(measure2.dax_formula)
                    THEN One
                    ELSE PositionalRatio(Squeezed(measure1.dax_formula),
                                         Squeezed(measure2.dax_formula))

\* C20 as the code has it: the rule of the string similarity is for two
\* texts that are both not empty; an empty text against a text that is not
\* empty, whitespace only included, gives 0.0, two empty texts 1.0.
FormulaComparisonOfTexts ==
    comparison # None
        => /\ WeightedParts
           /\ comparison.string_similarity
                  = IF measure1.dax_formula = <<>> /\ measure2.dax_formula = <<>>
                    THEN One
                    ELSE IF measure1.dax_formula = <<>> \/ measure2.dax_formula = <<>>
                    THEN Zero
                    ELSE IF Squeezed(measure1.dax_formula) = Squeezed(measure2.dax_formula)
                    THEN One
                    ELSE PositionalRatio(Squeezed(measure1.dax_formula),
                                         Squeezed(measure2.dax_formula))

\* SUM(A) against SUMX(A): half of the functions, four of the five
\* indicators, three of seven positions
FormulaComparisonWitness ==
    /\ comparison # None
    /\ measure1.dax_formula = SumAFormula
    /\ measure2.dax_formula = <<"S","U","M","X","(","A",")">>
    /\ comparison.function_similarity = IntDiv(1, 2)
    /\ comparison.structure_similarity = IntDiv(4, 5)
    /\ comparison.string_similarity = IntDiv(3, 7)

----------------------------------------------------------------------------
(* Properties of the visuals, layout and filters comparators.              *)

\* the visual types of a list of visuals
TypesOf(visuals) == {visuals[i].visual_type : i \in 1..Len(visuals)}

\* the number of visuals of a type
CountOf(visuals, vtype) ==
    Cardinality({i \in DOMAIN visuals : visuals[i].visual_type = vtype})

\* the data fields referenced by any visual of the list
FieldsOf(visuals) ==
    {f \in {"f1", "f2"} :
        \E i \in DOMAIN visuals :
            \E k \in DOMAIN visuals[i].data_fields : visuals[i].data_fields[k] = f}

\* 0.0 for a type on one side only, otherwise 1 - |c1 - c2| / max(c1, c2)
TypeSimilarity(c1, c2) ==
    IF c1 = 0 \/ c2 = 0 THEN Zero
    ELSE FSub(One, IntDiv(Abs(c1 - c2), Max(c1, c2)))

\* the mean of the per-type similarities over the union of the types
TypeProfileSimilarity(visuals1, visuals2) ==
    FMean(List([t \in 1..Len(SetToSeq(TypesOf(visuals1) \cup TypesOf(visuals2))) |->
        TypeSimilarity(
            CountOf(visuals1, SetToSeq(TypesOf(visuals1) \cup TypesOf(visuals2))[t]),
            CountOf(visuals2, SetToSeq(TypesOf(visuals1) \cup TypesOf(visuals2))[t]))]))

\* |a & b| / |a | b| of two sets that are not both empty
SetJaccard(a, b) == IntDiv(Cardinality(a \cap b), Cardinality(a \cup b))

OnPage(visuals, page) ==
    Cardinality({i \in DOMAIN visuals : visuals[i].page_name = page})

\* the numbers of visuals per page, ascending, of a non-empty list of
\* visuals on the pages p1 and p2
CountsAscending(visuals) ==
    IF OnPage(visuals, "p1") = 0 THEN <<OnPage(visuals, "p2")>>
    ELSE IF OnPage(visuals, "p2") = 0 THEN <<OnPage(visuals, "p1")>>
    ELSE <<Min(OnPage(visuals, "p1"), OnPage(visuals, "p2")),
           Max(OnPage(visuals, "p1"), OnPage(visuals, "p2"))>>

\* the mean over the positions below the shorter length of
\* 1 - |a_k - b_k| / max(a_k, b_k), times shorter length / longer length
LayoutOfCounts(a, b) ==
    FMul(FMean(List([k \in 1..Min(Len(a), Len(b)) |->
                   FSub(One, IntDiv(Abs(a[k] - b[k]), Max(a[k], b[k])))])),
         IntDiv(Min(Len(a), Len(b)), Max(Len(a), Len(b))))

\* the visuals with the names of the pages p1 and p2 exchanged
PagesExchanged(visuals) ==
    List([i \in DOMAIN visuals |->
        [visuals[i] EXCEPT !.page_name = IF @ = "p1" THEN "p2" ELSE "p1"]])

OnlyFilters(visuals) ==
    SelectSeq(visuals, LAMBDA v : v.visual_type = "filter")

\* the filters score of a pair is that of the filter fields of its two
\* dashboards, whatever their other visuals
FiltersOfPair(sc) ==
    /\ FieldsOf(OnlyFilters(profiles[PairOf(sc)[1]].visual_elements))
           \cup FieldsOf(OnlyFilters(profiles[PairOf(sc)[2]].visual_elements)) # {}
           => sc.breakdown.filters_score
                  = SetJaccard(
                        FieldsOf(OnlyFilters(profiles[PairOf(sc)[1]].visual_elements)),
                        FieldsOf(OnlyFilters(profiles[PairOf(sc)[2]].visual_elements)))
    /\ sc.breakdown.filters_score
           = _compare_filters(OnlyFilters(profiles[PairOf(sc)[1]].visual_elements),
                              OnlyFilters(profiles[PairOf(sc)[2]].visual_elements))

----------------------------------------------------------------------------
(* Properties of the traversal and of the groups it yields.                *)

\* the ids reachable from the ids of S over the adjacency map without
\* passing through an id of closed
RECURSIVE ReachableFrom(_, _, _)
ReachableFrom(S, conn, closed) ==
    LET next == S \cup (UNION {ConnectionsGet(conn, a) : a \in S} \ closed)
    IN  IF next = S THEN S ELSE ReachableFrom(next, conn, closed)

\* _find_connected_group is about to return
TraversalReturns == pc = "traverse" /\ stack = <<>>

\* C24 (traversal): _find_connected_group terminates, marks each dashboard
\* visited at most once across the calls that share the visited set, and
\* returns exactly the set of not-yet-visited dashboards reachable from the
\* start dashboard over the edges of the adjacency map.
FindConnectedGroupContract ==
    /\ [](TraversalReturns
             => group = ReachableFrom({profiles[idx].dashboard_id}, connections,
                                      visited \ group))
    /\ [][visited' # visited
             => \E id \in ProfileIds \ visited :
                    visited' = visited \cup {id} /\ group' = group \cup {id}]_vars
    /\ (pc = "traverse") ~> (pc = "profiles")

\* the second call on a shared visited set returns a group of two after a
\* first call returned a dashboard on its own
FindConnectedGroupContractWitness ==
    /\ TraversalReturns
    /\ Cardinality(group) = 2
    /\ visited \ group # {}
    /\ groups = <<>>

\* the number of returned groups a dashboard is a member of
GroupsOf(a) ==
    Cardinality({i \in 1..Len(consolidation_groups) :
                    a \in consolidation_groups[i].dashboard_ids})

\* C25 (partition): every dashboard that is an endpoint of at least one
\* scored pair with total_score >= 0.70 is a member of exactly one group,
\* and every dashboard with no such pair is a member of no group.
GroupsPartition ==
    pc = "done"
        => \A a \in ProfileIds :
               GroupsOf(a) = IF \E b \in ProfileIds \ {a} : ReviewEdge(a, b)
                             THEN 1 ELSE 0

\* the first and the last dashboard form the one group, the dashboard
\* between them has no pair at the threshold
GroupsPartitionWitness ==
    /\ pc = "done"
    /\ Len(consolidation_groups) = 1
    /\ GroupsOf(profiles[1].dashboard_id) = 1
    /\ GroupsOf(profiles[2].dashboard_id) = 0
    /\ GroupsOf(profiles[3].dashboard_id) = 1

\* the total_score of the scored pair of the dashboards a and b
TotalOfPair(a, b) ==
    LET k == CHOOSE k \in 1..Len(similarity_scores) :
                 {similarity_scores[k].dashboard1_id,
                  similarity_scores[k].dashboard2_id} = {a, b}
    IN  similarity_scores[k].total_score

\* C26 (groups of two): for a group with exactly two members
\* average_similarity equals the total_score of that one pair and is
\* >= 0.70, so its action is never review; the action review is assigned
\* to groups of three or more dashboards only.
PairGroups ==
    pc = "done"
        => \A i \in 1..Len(consolidation_groups) :
               /\ Cardinality(consolidation_groups[i].dashboard_ids) = 2
                      => /\ \A a, b \in consolidation_groups[i].dashboard_ids :
                                a # b => consolidation_groups[i].average_similarity
                                             = TotalOfPair(a, b)
                         /\ FLe(Point7, consolidation_groups[i].average_similarity)
                         /\ consolidation_groups[i].recommendation.action # "review"
               /\ consolidation_groups[i].recommendation.action = "review"
                      => Cardinality(consolidation_groups[i].dashboard_ids) >= 3

\* a group of two whose pair scores exactly 0.70, the action consolidate,
\* next to a dashboard that scores 0.40 against both
PairGroupsWitness ==
    /\ pc = "done"
    /\ Len(consolidation_groups) = 1
    /\ Cardinality(consolidation_groups[1].dashboard_ids) = 2
    /\ consolidation_groups[1].average_similarity = Point7
    /\ consolidation_groups[1].recommendation.action = "consolidate"

\* a group of three with the action review
ReviewGroupOfThree ==
    /\ pc = "done"
    /\ \E i \in 1..Len(consolidation_groups) :
           /\ Cardinality(consolidation_groups[i].dashboard_ids) = 3
           /\ consolidation_groups[i].recommendation.action = "review"

----------------------------------------------------------------------------
(* Properties of the comparison with weights supplied by the caller.       *)

\* C27 (caller-supplied weights): for every weight map passed to
\* compare_dashboards whose values are non-negative and sum to 1.0, maps
\* that omit some of the keys measures, visuals, data_model, layout
\* included, total_score lies in [0, 1].
CallerWeights ==
    (scoreAB # None /\ weights \in WeightMaps)
        => FLe(Zero, scoreAB.total_score) /\ FLe(scoreAB.total_score, One)

----------------------------------------------------------------------------
(* The HTTP handlers of main.py on the three module-level stores           *)
(* dashboard_profiles, similarity_scores and consolidation_groups.  A      *)
(* handler touches the stores without an await in between, so each request *)
(* is one step.                                                            *)

\* the stored lists are capped for the exploration
MaxStored == 2

\* the number of stored profiles is capped for the exploration
MaxProfiles == 2

\* an api-analysis request carries at most MaxReports reports
MaxReports == 2

\* the names of the reports in an api-analysis request
ReportNames == {"X", "Y"}

\* the ids under which the upload handlers store a profile
UploadIds == {"A", "B"}

\* the contents of an uploaded profile: one measure, or nothing
UploadContents ==
    {[measures |-> <<[measure_name |-> <<"T","s">>, dax_formula |-> SumAFormula]>>,
      visual_elements |-> <<>>, tables |-> <<>>],
     [measures |-> <<>>, visual_elements |-> <<>>, tables |-> <<>>]}

\* the profile api_analysis builds for a report: id f"api_{name}", no
\* measures and no visual elements
ApiProfile(name) ==
    [dashboard_id |-> "api_" \o name,
     measures |-> <<>>, visual_elements |-> <<>>, tables |-> <<>>]

\* dashboard_profiles[profile.dashboard_id] = profile on a dict that keeps
\* insertion order: a known key keeps its place
Stored(store, profile) ==
    IF \E i \in 1..Len(store) : store[i].dashboard_id = profile.dashboard_id
    THEN List([i \in 1..Len(store) |->
                  IF store[i].dashboard_id = profile.dashboard_id
                  THEN profile ELSE store[i]])
    ELSE Append(store, profile)

RECURSIVE StoredAll(_, _)
StoredAll(store, ps) ==
    IF ps = <<>> THEN store ELSE StoredAll(Stored(store, Head(ps)), Tail(ps))

\* compare_all_dashboards(profiles) with the engine's default weights
compare_all_dashboards(ps) == SerialSweep(ps, default_weights)

\* the id sets of the loop of lines 296-300: for each profile not yet
\* visited the ids _find_connected_group returns, kept when more than one
RECURSIVE GroupSetsFrom(_, _, _, _)
GroupSetsFrom(ps, conn, i, seen) ==
    IF i > Len(ps) THEN <<>>
    ELSE IF ps[i].dashboard_id \in seen THEN GroupSetsFrom(ps, conn, i + 1, seen)
    ELSE LET found == ReachableFrom({ps[i].dashboard_id}, conn, seen)
         IN  (IF Cardinality(found) > 1 THEN <<found>> ELSE <<>>)
                 \o GroupSetsFrom(ps, conn, i + 1, seen \cup found)

generate_consolidation_groups(ps, scores) ==
    LET sets == GroupSetsFrom(ps, Connections(scores), 1, {})
    IN  List([k \in 1..Len(sets) |-> MakeGroup(k, sets[k], ps, scores)])

\* analyze_batch(profiles): the scores, and the groups when there are scores
analyze_batch(ps) ==
    LET scores == compare_all_dashboards(ps)
    IN  [similarity_scores |-> scores,
         consolidation_groups |->
             IF scores # <<>> THEN generate_consolidation_groups(ps, scores)
             ELSE <<>>]

\* the status the client receives when the body of a handler raises
\* HTTPException(status_code) inside "try: ... except Exception as e: raise
\* HTTPException(status_code=500, detail=str(e))": HTTPException is an
\* Exception, so the handler catches it and raises the 500
Rethrown(status_code) == 500

Response(endpoint, status, detail) ==
    [endpoint |-> endpoint, status |-> status, detail |-> detail]

\* the stores take the scores and groups of a result in place of theirs
Replaced(r) ==
    /\ stored_similarity_scores' = r.similarity_scores
    /\ stored_consolidation_groups' = r.consolidation_groups

\* the stores take the scores and groups of a result after theirs
Extended(r) ==
    /\ stored_similarity_scores' = stored_similarity_scores \o r.similarity_scores
    /\ stored_consolidation_groups' =
           stored_consolidation_groups \o r.consolidation_groups

\* an upload handler stores the profile it has built
StoreProfile ==
    /\ \E id \in UploadIds, c \in UploadContents :
           /\ dashboard_profiles' =
                  Stored(dashboard_profiles,
                         [dashboard_id |-> id, measures |-> c.measures,
                          visual_elements |-> c.visual_elements,
                          tables |-> c.tables])
           /\ Len(dashboard_profiles') <= MaxProfiles
    /\ response' = Response("upload", 200, "stored")
    /\ UNCHANGED <<stored_similarity_scores, stored_consolidation_groups>>
    /\ UNCHANGED <<compareVars, groupVars, batchVars, formulaVars>>

\* POST /api/v1/analyze-similarity
AnalyzeSimilarity ==
    /\ IF Len(dashboard_profiles) < 2
       THEN /\ response' = Response("analyze_similarity", Rethrown(400), "need_two")
            /\ UNCHANGED <<stored_similarity_scores, stored_consolidation_groups>>
       ELSE /\ stored_similarity_scores' = compare_all_dashboards(dashboard_profiles)
            /\ stored_consolidation_groups' =
                   generate_consolidation_groups(dashboard_profiles,
                                                 stored_similarity_scores')
            /\ response' = Response("analyze_similarity", 200, "completed")
    /\ UNCHANGED dashboard_profiles
    /\ UNCHANGED <<compareVars, groupVars, batchVars, formulaVars>>

\* POST /api/v1/run-similarity
RunSimilarity ==
    /\ IF Len(dashboard_profiles) < 2
       THEN /\ response' = Response("run_similarity", Rethrown(400), "need_two")
            /\ UNCHANGED <<stored_similarity_scores, stored_consolidation_groups>>
       ELSE /\ Replaced(analyze_batch(dashboard_profiles))
            /\ response' = Response("run_similarity", 200, "completed")
    /\ UNCHANGED dashboard_profiles
    /\ UNCHANGED <<compareVars, groupVars, batchVars, formulaVars>>

\* POST /api/v1/api-analysis with the reports of the request body
ApiAnalysis ==
    /\ Len(stored_similarity_scores) < MaxStored
    /\ \E n \in 0..MaxReports : \E names \in [1..n -> ReportNames] :
           LET processed_dashboards == List([k \in 1..n |-> ApiProfile(names[k])])
           IN  IF n = 0
               THEN /\ response' = Response("api_analysis", Rethrown(400), "no_reports")
                    /\ UNCHANGED <<dashboard_profiles, stored_similarity_scores,
                                   stored_consolidation_groups>>
               ELSE /\ dashboard_profiles' =
                           StoredAll(dashboard_profiles, processed_dashboards)
                    /\ Len(dashboard_profiles') <= MaxProfiles
                    /\ IF Len(processed_dashboards) > 1
                       THEN Extended(analyze_batch(processed_dashboards))
                       ELSE UNCHANGED <<stored_similarity_scores,
                                        stored_consolidation_groups>>
                    /\ response' = Response("api_analysis", 200, "completed")
    /\ UNCHANGED <<compareVars, groupVars, batchVars, formulaVars>>

\* POST /api/v1/generate-report with format json
GenerateReport ==
    /\ response' =
           IF stored_consolidation_groups = <<>>
           THEN Response("generate_report", Rethrown(400), "no_analysis")
           ELSE Response("generate_report", 200, "generated")
    /\ UNCHANGED <<dashboard_profiles, stored_similarity_scores,
                   stored_consolidation_groups>>
    /\ UNCHANGED <<compareVars, groupVars, batchVars, formulaVars>>

\* DELETE /api/v1/reset
ResetAnalysis ==
    /\ dashboard_profiles' = <<>>
    /\ stored_similarity_scores' = <<>>
    /\ stored_consolidation_groups' = <<>>
    /\ response' = Response("reset", 200, "reset")
    /\ UNCHANGED <<compareVars, groupVars, batchVars, formulaVars>>

\* the stores as main.py creates them (lines 67-69)
InitApi ==
    /\ CompareIdle
    /\ GroupIdle
    /\ BatchIdle
    /\ FormulaIdle
    /\ ApiIdle

NextApi ==
    \/ StoreProfile
    \/ AnalyzeSimilarity
    \/ RunSimilarity
    \/ ApiAnalysis
    \/ GenerateReport
    \/ ResetAnalysis

SpecApi == InitApi /\ [][NextApi]_vars

----------------------------------------------------------------------------
(* Properties of the API's stores.                                         *)

\* C28 (stored results are replaced): after any sequence of
\* analyze-similarity, run-similarity, api-analysis and reset requests the
\* stored similarity scores hold at most one score for each unordered pair
\* of dashboard ids, and each dashboard id is in at most one of the stored
\* consolidation groups.
StoredResultsReplaced ==
    /\ \A k, l \in 1..Len(stored_similarity_scores) :
           k < l =>
               {stored_similarity_scores[k].dashboard1_id,
                stored_similarity_scores[k].dashboard2_id}
                   # {stored_similarity_scores[l].dashboard1_id,
                      stored_similarity_scores[l].dashboard2_id}
    /\ \A k, l \in 1..Len(stored_consolidation_groups) :
           k < l =>
               stored_consolidation_groups[k].dashboard_ids
                   \cap stored_consolidation_groups[l].dashboard_ids = {}

\* the last request was an analysis of the stored profiles that succeeded
AnalysisCompleted ==
    /\ response # None
    /\ response.endpoint \in {"analyze_similarity", "run_similarity"}
    /\ response.status = 200

\* C29 (report after analysis): a generate-report request with format json
\* that follows a successful analyze-similarity or run-similarity request,
\* with no reset in between, succeeds.
ReportAfterAnalysis ==
    [][(AnalysisCompleted /\ response'.endpoint = "generate_report")
           => response'.status = 200]_vars

\* fewer than 2 profiles are stored and the step is an analyze-similarity or
\* run-similarity request
AnalysisOfTooFew ==
    /\ Len(dashboard_profiles) < 2
    /\ response'.endpoint \in {"analyze_similarity", "run_similarity"}

\* C30 (too few dashboards): with fewer than 2 stored profiles
\* analyze-similarity and run-similarity answer with HTTP status 400 and
\* leave the stored profiles, scores and groups unchanged.
TooFewRejected ==
    [][AnalysisOfTooFew
           => /\ response'.status = 400
              /\ UNCHANGED <<dashboard_profiles, stored_similarity_scores,
                             stored_consolidation_groups>>]_vars

\* the part of C30 about the stores alone
TooFewKeepsStores ==
    [][AnalysisOfTooFew
           => UNCHANGED <<dashboard_profiles, stored_similarity_scores,
                          stored_consolidation_groups>>]_vars

====
